---- MODULE Spec2Model ----
(***************************************************************************)
(* LocusMarket: the simulation lifecycle (the control route and the shared *)
(* globals) and the market tick engine.                                    *)
(*                                                                         *)
(* Units.  Prices and money are integers in units of 0.0001 USDC, so the   *)
(* default price bounds 0.0001 .. 1.0 are 1 .. 10000 and the start price   *)
(* 0.02 is 200.  Relative price changes are integers in permille (1/1000): *)
(* the 0.05 per unit of imbalance is 50 and the noise (Math.random() -     *)
(* 0.5) * 0.02 lies in -10 .. 10.  A price is rounded down to the unit     *)
(* grid after the multiplication.                                          *)
(*                                                                         *)
(* Concurrency.  Node runs one handler at a time; an async function gives  *)
(* up control only at an await of an external call.  Every action below is *)
(* the code between two such awaits.                                       *)
(*                                                                         *)
(* Two generations of the engine are in the repository.  The control route *)
(* builds its engine with three arguments and agent preferences            *)
(* max_qty_per_tick, which is the engine of unnamed/part_007 (no           *)
(* settlement call, executeTick never suspends): Spec uses it.             *)
(* The engine of unnamed/part_008 (buy, sell, settlement through the       *)
(* agents' tools) is modelled on its own in EngineSpec.                    *)
(*                                                                         *)
(* Heap.  An engine is held by the global marketEngine, by the start       *)
(* handler that built it, and by the callbacks of its rounds, which only   *)
(* compare it.  engines keeps the state of the engines the first two can   *)
(* still reach; writes counts the writes to every engine ever built.       *)
(***************************************************************************)
EXTENDS Integers, Sequences, FiniteSets, TLC

VARIABLES
  _isStarting,           \* globals: lock against concurrent starts
  _isSimulationRunning,  \* globals: running flag
  marketEngine,          \* globals: id of the active engine, 0 = null
  agents,                \* globals: the active agent instances, <<>> = []
  simulationInterval,    \* globals: id of the held timeout handle, 0 = null
  engines,               \* heap: engine id -> state of that MarketEngine
  writes,                \* history: engine id -> number of writes to its state
  timers,                \* event loop: pending setTimeout callbacks
  starts,                \* start handlers suspended at an await
  rounds,                \* scheduleNextTick callbacks suspended at an await
  published,             \* events handed to broadcastEvent
  nextEngine,            \* next fresh engine id
  nextTimer,             \* next fresh timer id
  lastOp,                \* history: the last handler step and its outcome
  startLog,              \* history: start outcomes since the last stop()
  tickCalls,             \* history: executeTick calls (round's engine, engine called)
  frozen,                \* history: engines with a pending round at a stop()
  stoppedRounds,         \* history: rounds that were in progress at a stop()
  pricing,               \* PricingEngine on its own: the last call and its result
  market,                \* MarketEngine on its own: its market and agent states
  call,                  \* MarketEngine on its own: the executeTick in progress
  lastTick,              \* MarketEngine on its own: the last TickResult
  sanitized,             \* sanitizeDecisions on its own: the last call and its result
  held,                  \* a caller of the engine's accessors: what they returned
  sse,                   \* the event stream: the listeners and the last broadcast
  wallet                 \* an agent's tools and the payments its purchase tool sent

lifecycleVars == <<_isStarting, _isSimulationRunning, marketEngine, agents,
                   simulationInterval, engines, writes, timers, starts, rounds,
                   published, nextEngine, nextTimer, lastOp, startLog, tickCalls,
                   frozen, stoppedRounds>>

engineVars == <<market, call, lastTick>>

\* what the lifecycle leaves alone
\* the callers and services around the engine, each modelled on its own
serviceVars == <<held, sse, wallet>>

unitVars == <<pricing, sanitized, serviceVars, engineVars>>

vars == <<lifecycleVars, pricing, sanitized, serviceVars, engineVars>>

globalsVars == <<_isStarting, _isSimulationRunning, marketEngine, agents,
                 simulationInterval>>

(***************************************************************************)
(* Bounds of the model and configuration of the program                    *)
(***************************************************************************)
\* accepted start() requests in one behaviour
MaxEngines == 2
\* setTimeout calls in one behaviour
MaxTimers == 4
\* MAX_TICKS of the environment (0 = unlimited)
maxTicks == 2
\* INITIAL_INVENTORY of the environment
initialInventory == 4
\* INITIAL_PRICE of the environment, 0.02
initialPrice == 200
\* MIN_PRICE, 0.0001
minPrice == 1
\* MAX_PRICE, 1.0
maxPrice == 10000
\* the fallback balance 10.0
fallbackBalance == 100000
\* percent price change per unit of imbalance, in permille
sensitivity == 50

\* values of (Math.random() - 0.5) * 0.02, in permille
NoiseValues == {-10, 0, 9}

\* the noise drawn in the rounds of Spec
RoundNoise == {0}

\* the balances a start can load: the wallet's answer "Remaining: $10 USDC"
\* and the fallback on any failure are both 10.0
Balances == {fallbackBalance}

AgentIds == <<"buyer_1", "buyer_2", "buyer_3">>

max_qty_per_tick == [a \in {"buyer_1", "buyer_2", "buyer_3"} |->
                       CASE a = "buyer_1" -> 3
                         [] a = "buyer_2" -> 5
                         [] OTHER -> 4]

\* the decisions drawn for an agent in Spec, two of those parseDecision can
\* return: wait, and buy 2
OracleQuantities == {0, 2}
OracleDecisions ==
  {[action |-> IF q > 0 THEN "buy" ELSE "wait", quantity |-> q] : q \in OracleQuantities}

\* what llm.invoke gives makeDecision: a response that parseDecision turns
\* into a decision, or an error
OracleAnswers ==
  {[ok |-> TRUE, action |-> d.action, quantity |-> d.quantity] : d \in OracleDecisions}
  \cup {[ok |-> FALSE, action |-> "", quantity |-> 0]}

\* variant: the catch block of makeDecision returns a purchase
makeDecisionBuysOnError(answer) ==
  IF answer.ok THEN [action |-> answer.action, quantity |-> answer.quantity]
  ELSE [action |-> "buy", quantity |-> 2]

\* makeDecision: the parsed decision, or wait 0 when the oracle failed
makeDecision(answer) ==
  IF answer.ok THEN [action |-> answer.action, quantity |-> answer.quantity]
  ELSE [action |-> "wait", quantity |-> 0]

Min(a, b) == IF a < b THEN a ELSE b
Max(a, b) == IF a > b THEN a ELSE b

(***************************************************************************)
(* PricingEngine                                                           *)
(***************************************************************************)
\* variant: the price is clamped from above only
clampPriceUpperOnly(newPrice) == Min(maxPrice, newPrice)

\* Math.max(minPrice, Math.min(maxPrice, newPrice))
clampPrice(newPrice) == Max(minPrice, Min(maxPrice, newPrice))

\* variant: the noise term is ten times as wide
unclampedPriceWideNoise(demand, supply, currentPrice, noise) ==
  LET baselineSupply == IF supply > 0 THEN supply ELSE 0
      imbalance == demand - baselineSupply
      baseDelta == imbalance * sensitivity
      priceDelta == baseDelta + 10 * noise
  IN  (currentPrice * (1000 + priceDelta)) \div 1000

\* the price before the clamp
unclampedPrice(demand, supply, currentPrice, noise) ==
  LET baselineSupply == IF supply > 0 THEN supply ELSE 0
      imbalance == demand - baselineSupply
      baseDelta == imbalance * sensitivity
      priceDelta == baseDelta + noise
  IN  (currentPrice * (1000 + priceDelta)) \div 1000

calculatePriceChange(demand, supply, currentPrice, noise) ==
  clampPrice(unclampedPrice(demand, supply, currentPrice, noise))

(***************************************************************************)
(* MarketEngine as the control route builds it (unnamed/part_007)          *)
(***************************************************************************)
\* new MarketEngine(initialPrice, initialInventory, agentStates); the agent
\* states start with money 0 and inventory 0
NewEngine ==
  [tick |-> 0, current_price |-> initialPrice,
   seller_inventory |-> initialInventory, seller_revenue |-> 0,
   money |-> [a \in {AgentIds[i] : i \in 1..Len(AgentIds)} |-> 0],
   inventory |-> [a \in {AgentIds[i] : i \in 1..Len(AgentIds)} |-> 0]]

\* one entry of sanitizeDecisions: the action of the raw decision is not read
sanitizeOneV1(e, d) ==
  LET q0 == Max(0, d.quantity)
      q1 == Min(q0, max_qty_per_tick[d.id])
      q2 == Min(q1, e.money[d.id] \div e.current_price)
      q3 == Min(q2, e.seller_inventory)
  IN  [id |-> d.id, action |-> IF q3 > 0 THEN "buy" ELSE "wait", quantity |-> q3]

sanitizeDecisionsV1(e, decisions) ==
  LET known == {i \in 1..Len(decisions) : decisions[i].id \in DOMAIN e.money}
  IN  [i \in 1..Len(decisions) |->
         IF i \in known THEN sanitizeOneV1(e, decisions[i])
         ELSE [id |-> decisions[i].id, action |-> "drop", quantity |-> 0]]

\* the purchase loop of executeTick over the sanitized entries k..Len(ds);
\* st carries the engine and the round's totalDemand
RECURSIVE purchasesV1(_, _, _)
purchasesV1(st, ds, k) ==
  IF k > Len(ds) THEN st
  ELSE
    LET d == ds[k]
        e == st.engine
        cost == d.quantity * e.current_price
        ok == /\ d.action = "buy"
              /\ d.quantity > 0
              /\ e.seller_inventory >= d.quantity
              /\ e.money[d.id] >= cost
        e2 == IF ok
              THEN [e EXCEPT !.money[d.id] = @ - cost,
                             !.inventory[d.id] = @ + d.quantity,
                             !.seller_inventory = @ - d.quantity,
                             !.seller_revenue = @ + cost]
              ELSE e
    IN  purchasesV1([engine |-> e2,
                     totalDemand |-> st.totalDemand + (IF ok THEN d.quantity ELSE 0)],
                    ds, k + 1)

\* executeTick(decisions): the engine after the tick
executeTickV1(e, decisions, noise) ==
  LET ticked == [e EXCEPT !.tick = @ + 1]
      priceBefore == e.current_price
      valid == SelectSeq(sanitizeDecisionsV1(ticked, decisions),
                         LAMBDA d : d.action # "drop")
      done == purchasesV1([engine |-> ticked, totalDemand |-> 0], valid, 1)
      baselineSupply == 3
      priceAfter == calculatePriceChange(done.totalDemand, baselineSupply,
                                         priceBefore, noise)
  IN  [done.engine EXCEPT !.current_price = priceAfter]

(***************************************************************************)
(* MarketEngine with buy, sell and settlement (unnamed/part_008)           *)
(***************************************************************************)
\* the agents of the engine checked on its own, and an id it does not know
Participants == {"buyer_1", "buyer_2"}
UnknownId == "buyer_9"

\* the agent states in the order the constructor is given them
registrationOrder == <<"buyer_1", "buyer_2">>

\* preferences.max_spend_percent in percent; 0 stands for an absent value
max_spend_percent == [a \in Participants |-> IF a = "buyer_1" THEN 0 ELSE 100]

\* new MarketEngine(initialPrice, initialInventory, agentStates, agentInstances);
\* of each TickResult pushed to tickHistory the model keeps the tick number
newMarketEngine(price, inv, money, holdings, instances) ==
  [tick |-> 0, current_price |-> price, seller_inventory |-> inv,
   seller_revenue |-> 0, money |-> money, inventory |-> holdings,
   last_tick_seen |-> [a \in Participants |-> 0],
   agentInstances |-> instances, tickHistory |-> <<>>,
   max_spend_percent |-> max_spend_percent,
   long_term |-> [a \in Participants |->
                    [total_spent |-> 0, total_qty_bought |-> 0,
                     total_revenue |-> 0, total_qty_sold |-> 0]]]

\* a raw quantity is any number: the model writes it in tenths of a unit,
\* a sanitized quantity in units
Tenths == 10

\* Math.max(0, Math.floor(decision.quantity))
requestedQuantity(quantity) == Max(0, quantity \div Tenths)

\* variant: the buy quantity is not capped by the seller's inventory
buyQuantityIgnoresInventory(m, id, qty) ==
  LET maxSpendPercent == IF m.max_spend_percent[id] = 0 THEN 40
                         ELSE m.max_spend_percent[id]
      maxQtyByBalance == (m.money[id] * maxSpendPercent) \div (100 * m.current_price)
  IN  Min(qty, maxQtyByBalance)

\* the quantity of a buy entry: the request under the balance and
\* inventory limits
buyQuantity(m, id, qty) ==
  LET maxSpendPercent == IF m.max_spend_percent[id] = 0 THEN 40
                         ELSE m.max_spend_percent[id]
      maxQtyByBalance == (m.money[id] * maxSpendPercent) \div (100 * m.current_price)
      maxQtyByInventory == m.seller_inventory
  IN  Min(qty, Min(maxQtyByBalance, maxQtyByInventory))

\* variant: the sell limit is 8% of the requested quantity
sellQuantityLimitOfRequest(m, id, qty) ==
  LET maxQtyBySellLimit == (qty * 8 + 99) \div 100
  IN  Min(qty, Min(m.inventory[id], maxQtyBySellLimit))

\* variant: the sell limit is rounded down
sellQuantityLimitFloored(m, id, qty) ==
  LET maxQtyBySellLimit == (m.inventory[id] * 8) \div 100
  IN  Min(qty, Min(m.inventory[id], maxQtyBySellLimit))

\* the quantity of a sell entry: the request under the holdings and the
\* 8% limit, rounded up
sellQuantity(m, id, qty) ==
  LET maxQtyBySellLimit == (m.inventory[id] * 8 + 99) \div 100
  IN  Min(qty, Min(m.inventory[id], maxQtyBySellLimit))

\* one entry of sanitizeDecisions for a known agent
\* variant: an action that is neither buy nor sell is taken as a buy
sanitizeOneBuysByDefault(m, d) ==
  LET qty == requestedQuantity(d.quantity)
      buyQty == buyQuantity(m, d.id, qty)
      sellQty == sellQuantity(m, d.id, qty)
  IN  CASE d.action = "sell" ->
             [id |-> d.id, action |-> IF sellQty > 0 THEN "sell" ELSE "wait",
              quantity |-> sellQty]
        [] OTHER ->
             [id |-> d.id, action |-> IF buyQty > 0 THEN "buy" ELSE "wait",
              quantity |-> buyQty]

sanitizeOne(m, d) ==
  LET qty == requestedQuantity(d.quantity)
      buyQty == buyQuantity(m, d.id, qty)
      sellQty == sellQuantity(m, d.id, qty)
  IN  CASE d.action = "buy" ->
             [id |-> d.id, action |-> IF buyQty > 0 THEN "buy" ELSE "wait",
              quantity |-> buyQty]
        [] d.action = "sell" ->
             [id |-> d.id, action |-> IF sellQty > 0 THEN "sell" ELSE "wait",
              quantity |-> sellQty]
        [] OTHER -> [id |-> d.id, action |-> "wait", quantity |-> 0]

\* variant: the entry of an unknown agent is kept, as a wait
sanitizeDecisionsKeepsUnknown(m, decisions) ==
  [i \in 1..Len(decisions) |->
     IF decisions[i].id \in DOMAIN m.money THEN sanitizeOne(m, decisions[i])
     ELSE [id |-> decisions[i].id, action |-> "wait", quantity |-> 0]]

\* sanitizeDecisions: the entries of known agents, in the order of the batch
sanitizeDecisions(m, decisions) ==
  LET known == SelectSeq(decisions, LAMBDA d : d.id \in DOMAIN m.money)
  IN  [i \in 1..Len(known) |-> sanitizeOne(m, known[i])]

\* variant: the guard of a trade is dropped
canTradeUnchecked(m, d) == TRUE

\* the guard of a trade in executeTick: the seller has the units and the
\* agent the money (buy), or the agent has the units (sell)
canTrade(m, d) ==
  IF d.action = "buy"
  THEN m.seller_inventory >= d.quantity /\ m.money[d.id] >= d.quantity * m.current_price
  ELSE m.inventory[d.id] >= d.quantity

\* the end of one loop iteration: the agent's price history is updated
seen(m, d) == [m EXCEPT !.last_tick_seen[d.id] = m.tick]

\* the state of the loop of executeTick at its start: the market, the
\* sanitized batch, the index of the entry at hand, the locals, and what the
\* tick has done so far: the settlement calls that returned, and the agents
\* that got an entry pushed to history.prices_seen and to history.actions
loopStart(m, valid) ==
  [m |-> m, valid |-> valid, k |-> 1, totalDemand |-> 0, totalSupply |-> 0,
   transactions |-> <<>>, priceBefore |-> m.current_price,
   settlements |-> <<>>, prices_seen |-> <<>>, actions |-> <<>>]

\* the loop of executeTick from entry st.k up to its next await (st.k is then
\* the entry whose settlement is awaited) or its end (st.k > Len(st.valid))
RECURSIVE tradeLoop(_)
tradeLoop(st) ==
  IF st.k > Len(st.valid) THEN st
  ELSE
    LET d == st.valid[st.k]
    IN  IF d.action \in {"buy", "sell"} /\ d.quantity > 0
        THEN IF d.id \notin st.m.agentInstances
             THEN tradeLoop([st EXCEPT !.k = @ + 1])
             ELSE IF canTrade(st.m, d)
             THEN st
             ELSE tradeLoop([st EXCEPT !.k = @ + 1, !.m = seen(@, d),
                                       !.prices_seen = Append(@, d.id)])
        ELSE tradeLoop([st EXCEPT !.k = @ + 1, !.m = seen(@, d),
                                  !.actions = Append(@, d.id),
                                  !.prices_seen = Append(@, d.id)])

\* variant: a buy hands out the units without taking them from the seller
applyTradeKeepsStock(m, d) ==
  LET amount == d.quantity * m.current_price
  IN  IF d.action = "buy"
      THEN [m EXCEPT !.money[d.id] = @ - amount,
                     !.inventory[d.id] = @ + d.quantity,
                     !.seller_revenue = @ + amount,
                     !.long_term[d.id].total_spent = @ + amount,
                     !.long_term[d.id].total_qty_bought = @ + d.quantity]
      ELSE [m EXCEPT !.money[d.id] = @ + amount,
                     !.inventory[d.id] = @ - d.quantity,
                     !.seller_inventory = @ + d.quantity,
                     !.seller_revenue = @ - amount,
                     !.long_term[d.id].total_revenue = @ + amount,
                     !.long_term[d.id].total_qty_sold = @ + d.quantity]

\* variant: a sale pays the agent and leaves the seller's revenue as it is
applyTradeKeepsRevenue(m, d) ==
  LET amount == d.quantity * m.current_price
  IN  IF d.action = "buy"
      THEN [m EXCEPT !.money[d.id] = @ - amount,
                     !.inventory[d.id] = @ + d.quantity,
                     !.seller_inventory = @ - d.quantity,
                     !.seller_revenue = @ + amount,
                     !.long_term[d.id].total_spent = @ + amount,
                     !.long_term[d.id].total_qty_bought = @ + d.quantity]
      ELSE [m EXCEPT !.money[d.id] = @ + amount,
                     !.inventory[d.id] = @ - d.quantity,
                     !.seller_inventory = @ + d.quantity,
                     !.long_term[d.id].total_revenue = @ + amount,
                     !.long_term[d.id].total_qty_sold = @ + d.quantity]

\* the in-memory update after a settlement that succeeded: the money, the
\* units, the seller's inventory and revenue, and the long-term statistics
applyTrade(m, d) ==
  LET amount == d.quantity * m.current_price
  IN  IF d.action = "buy"
      THEN [m EXCEPT !.money[d.id] = @ - amount,
                     !.inventory[d.id] = @ + d.quantity,
                     !.seller_inventory = @ - d.quantity,
                     !.seller_revenue = @ + amount,
                     !.long_term[d.id].total_spent = @ + amount,
                     !.long_term[d.id].total_qty_bought = @ + d.quantity]
      ELSE [m EXCEPT !.money[d.id] = @ + amount,
                     !.inventory[d.id] = @ - d.quantity,
                     !.seller_inventory = @ + d.quantity,
                     !.seller_revenue = @ - amount,
                     !.long_term[d.id].total_revenue = @ + amount,
                     !.long_term[d.id].total_qty_sold = @ + d.quantity]

\* variant: an entry whose settlement reported a failure is tried again
settleRetriesOnFailure(st, outcome) ==
  LET d == st.valid[st.k]
      m == st.m
      traded == applyTrade(m, d)
  IN  CASE outcome = "success" ->
             [st EXCEPT !.k = @ + 1,
                        !.m = seen(traded, d),
                        !.transactions = Append(@, [agent_id |-> d.id,
                                                    action |-> d.action,
                                                    quantity |-> d.quantity,
                                                    price |-> m.current_price]),
                        !.totalDemand = @ + (IF d.action = "buy" THEN d.quantity ELSE 0),
                        !.totalSupply = @ + (IF d.action = "sell" THEN d.quantity ELSE 0),
                        !.settlements = Append(@, [id |-> d.id, outcome |-> outcome]),
                        !.actions = Append(@, d.id),
                        !.prices_seen = Append(@, d.id)]
        [] outcome = "failure" ->
             [st EXCEPT !.settlements = Append(@, [id |-> d.id, outcome |-> outcome])]
        [] OTHER ->
             [st EXCEPT !.k = @ + 1, !.m = seen(@, d),
                        !.settlements = Append(@, [id |-> d.id, outcome |-> outcome]),
                        !.prices_seen = Append(@, d.id)]

\* variant: a settlement reported as failed still moves the money and the units
settleAppliesOnFailure(st, outcome) ==
  LET d == st.valid[st.k]
      m == st.m
      traded == applyTrade(m, d)
  IN  CASE outcome = "success" ->
             [st EXCEPT !.k = @ + 1,
                        !.m = seen(traded, d),
                        !.transactions = Append(@, [agent_id |-> d.id,
                                                    action |-> d.action,
                                                    quantity |-> d.quantity,
                                                    price |-> m.current_price]),
                        !.totalDemand = @ + (IF d.action = "buy" THEN d.quantity ELSE 0),
                        !.totalSupply = @ + (IF d.action = "sell" THEN d.quantity ELSE 0),
                        !.settlements = Append(@, [id |-> d.id, outcome |-> outcome]),
                        !.actions = Append(@, d.id),
                        !.prices_seen = Append(@, d.id)]
        [] outcome = "failure" ->
             [st EXCEPT !.k = @ + 1, !.m = traded,
                        !.settlements = Append(@, [id |-> d.id, outcome |-> outcome])]
        [] OTHER ->
             [st EXCEPT !.k = @ + 1, !.m = seen(@, d),
                        !.settlements = Append(@, [id |-> d.id, outcome |-> outcome]),
                        !.prices_seen = Append(@, d.id)]

\* the settlement of entry st.k returned: "success", "failure" (the result
\* says so: continue) or "throw" (the call or JSON.parse threw: caught)
settle(st, outcome) ==
  LET d == st.valid[st.k]
      m == st.m
      traded == applyTrade(m, d)
  IN  CASE outcome = "success" ->
             [st EXCEPT !.k = @ + 1,
                        !.m = seen(traded, d),
                        !.transactions = Append(@, [agent_id |-> d.id,
                                                    action |-> d.action,
                                                    quantity |-> d.quantity,
                                                    price |-> m.current_price]),
                        !.totalDemand = @ + (IF d.action = "buy" THEN d.quantity ELSE 0),
                        !.totalSupply = @ + (IF d.action = "sell" THEN d.quantity ELSE 0),
                        !.settlements = Append(@, [id |-> d.id, outcome |-> outcome]),
                        !.actions = Append(@, d.id),
                        !.prices_seen = Append(@, d.id)]
        [] outcome = "failure" ->
             [st EXCEPT !.k = @ + 1,
                        !.settlements = Append(@, [id |-> d.id, outcome |-> outcome])]
        [] OTHER ->
             [st EXCEPT !.k = @ + 1, !.m = seen(@, d),
                        !.settlements = Append(@, [id |-> d.id, outcome |-> outcome]),
                        !.prices_seen = Append(@, d.id)]

\* the length tickHistory is cut back to
historyLimit == 100

\* variant: the TickResult is pushed and nothing is dropped
pushTickResultUnbounded(tickHistory, tickResult) == Append(tickHistory, tickResult)

\* tickHistory.push(tickResult), then slice(-100) when longer than 100
pushTickResult(tickHistory, tickResult) ==
  LET pushed == Append(tickHistory, tickResult)
  IN  IF Len(pushed) > historyLimit
      THEN SubSeq(pushed, Len(pushed) - historyLimit + 1, Len(pushed))
      ELSE pushed

\* variant: the new price is computed from the units bought alone
priceAfterTickOfDemand(st, noise) ==
  LET netDemand == st.totalDemand
      baselineSupply == 0
  IN  calculatePriceChange(netDemand, baselineSupply, st.priceBefore, noise)

\* the new price after the loop: net demand against a baseline of 0
priceAfterTick(st, noise) ==
  LET netDemand == st.totalDemand - st.totalSupply
      baselineSupply == 0
  IN  calculatePriceChange(netDemand, baselineSupply, st.priceBefore, noise)

(***************************************************************************)
(* globals.js                                                              *)
(***************************************************************************)
isStarting == _isStarting
isSimulationRunning == _isSimulationRunning

\* variant: clearTimeout is called but the handle variable is not reset
clearSimulationIntervalKeepsHandle ==
  [running |-> FALSE,
   timers |-> {t \in timers : t.id # simulationInterval},
   handle |-> simulationInterval]

\* clearSimulationInterval(): the running flag, the pending callbacks and the
\* handle after it; clearTimeout cancels the callback whose handle is held
clearSimulationInterval ==
  [running |-> FALSE,
   timers |-> {t \in timers : t.id # simulationInterval},
   handle |-> 0]

\* the engines that the global or a suspended start handler still holds
reachable(engs, active, handlers) ==
  [e \in {x \in DOMAIN engs : x = active \/ \E s \in handlers : s.engine = x} |->
     engs[e]]

\* allAgents of the start that created engine k
AgentsOf(k) == [i \in 1..Len(AgentIds) |-> [sim |-> k, id |-> AgentIds[i]]]

(***************************************************************************)
(* POST /api/control, action start                                         *)
(***************************************************************************)
\* variant: the guard reads the starting lock only
CannotStartLockOnly == isStarting

\* variant: the guard reads neither the running flag nor the handle
CannotStartNoRunningFlag ==
  \/ isStarting
  \/ marketEngine # 0
  \/ Len(agents) > 0

\* the guard of start: reject if anything indicates the simulation is busy
CannotStart ==
  \/ isStarting
  \/ isSimulationRunning
  \/ marketEngine # 0
  \/ Len(agents) > 0
  \/ simulationInterval # 0

StartRejected ==
  /\ CannotStart
  /\ lastOp' = [op |-> "start", result |-> 409, arg |-> 0]
  /\ UNCHANGED <<globalsVars, engines, writes, timers, starts, rounds, published,
                 nextEngine, nextTimer, startLog, tickCalls, frozen,
                 stoppedRounds>>
  /\ UNCHANGED unitVars

\* the lock is taken, the engine and the agents are created and stored, and
\* the handler suspends at await Promise.all(initialize)
StartAccepted ==
  /\ ~CannotStart
  /\ nextEngine <= MaxEngines
  /\ _isStarting' = TRUE
  /\ engines' = engines @@ (nextEngine :> NewEngine)
  /\ writes' = writes @@ (nextEngine :> 0)
  /\ marketEngine' = nextEngine
  /\ agents' = AgentsOf(nextEngine)
  /\ starts' = starts \cup {[engine |-> nextEngine, pc |-> "initialize", i |-> 0]}
  /\ nextEngine' = nextEngine + 1
  /\ startLog' = Append(startLog, "accepted")
  /\ lastOp' = [op |-> "start", result |-> 0, arg |-> nextEngine]
  /\ UNCHANGED <<_isSimulationRunning, simulationInterval, timers, rounds,
                 published, nextTimer, tickCalls, frozen,
                 stoppedRounds>>
  /\ UNCHANGED unitVars

PostStart == StartRejected \/ StartAccepted

\* all agents initialized: the handler goes on to the first balance fetch
InitializeDone(s) ==
  /\ s.pc = "initialize"
  /\ starts' = (starts \ {s}) \cup {[s EXCEPT !.pc = "balance", !.i = 1]}
  /\ lastOp' = [op |-> "initialize", result |-> 0, arg |-> s.engine]
  /\ UNCHANGED <<globalsVars, engines, writes, timers, rounds, published,
                 nextEngine, nextTimer, startLog, tickCalls, frozen,
                 stoppedRounds>>
  /\ UNCHANGED unitVars

\* variant: the catch block does not release the starting lock
InitializeFailedKeepsLock(s) ==
  /\ s.pc = "initialize"
  /\ starts' = starts \ {s}
  /\ _isSimulationRunning' = clearSimulationInterval.running
  /\ timers' = clearSimulationInterval.timers
  /\ simulationInterval' = clearSimulationInterval.handle
  /\ marketEngine' = 0
  /\ agents' = <<>>
  /\ startLog' = Append(startLog, "failed")
  /\ engines' = reachable(engines, 0, starts \ {s})
  /\ lastOp' = [op |-> "start", result |-> 500, arg |-> s.engine]
  /\ UNCHANGED <<_isStarting, writes, rounds, published, nextEngine, nextTimer,
                 tickCalls, frozen, stoppedRounds>>
  /\ UNCHANGED unitVars

\* an agent's initialize() rejects: the catch block of start
InitializeFailed(s) ==
  /\ s.pc = "initialize"
  /\ starts' = starts \ {s}
  /\ _isStarting' = FALSE
  /\ _isSimulationRunning' = clearSimulationInterval.running
  /\ timers' = clearSimulationInterval.timers
  /\ simulationInterval' = clearSimulationInterval.handle
  /\ marketEngine' = 0
  /\ agents' = <<>>
  /\ startLog' = Append(startLog, "failed")
  /\ engines' = reachable(engines, 0, starts \ {s})
  /\ lastOp' = [op |-> "start", result |-> 500, arg |-> s.engine]
  /\ UNCHANGED <<writes, rounds, published, nextEngine, nextTimer, tickCalls,
                 frozen, stoppedRounds>>
  /\ UNCHANGED unitVars

\* one balance fetch returns (a parsed balance, or the fallback on any
\* failure); after the last one the running flag is set, the first round is
\* scheduled and the lock is released
BalanceFetched(s, balance) ==
  /\ s.pc = "balance"
  /\ LET left == IF s.i < Len(AgentIds)
                 THEN (starts \ {s}) \cup {[s EXCEPT !.i = @ + 1]}
                 ELSE starts \ {s}
     IN  /\ starts' = left
         /\ engines' = reachable([engines EXCEPT ![s.engine].money[AgentIds[s.i]] = balance],
                                 marketEngine, left)
  /\ writes' = [writes EXCEPT ![s.engine] = @ + 1]
  /\ IF s.i < Len(AgentIds)
     THEN /\ lastOp' = [op |-> "balance", result |-> 0, arg |-> s.engine]
          /\ UNCHANGED <<globalsVars, timers, nextTimer>>
     ELSE /\ nextTimer <= MaxTimers
          /\ _isSimulationRunning' = TRUE
          /\ timers' = timers \cup {[id |-> nextTimer, engine |-> s.engine, by |-> 0]}
          /\ simulationInterval' = nextTimer
          /\ nextTimer' = nextTimer + 1
          /\ _isStarting' = FALSE
          /\ lastOp' = [op |-> "start", result |-> 200, arg |-> s.engine]
          /\ UNCHANGED <<marketEngine, agents>>
  /\ UNCHANGED <<rounds, published, nextEngine, startLog, tickCalls, frozen,
                 stoppedRounds>>
  /\ UNCHANGED unitVars

(***************************************************************************)
(* POST /api/control, action stop                                          *)
(***************************************************************************)
\* the lifecycle as a stop() leaves it
Stopped ==
  /\ ~_isSimulationRunning
  /\ simulationInterval = 0
  /\ marketEngine = 0
  /\ agents = <<>>

\* GET /api/market: 503 while no engine is installed, else the installed
\* engine's market state, agents and history
GET_market ==
  IF marketEngine = 0 THEN [status |-> 503, engine |-> 0, state |-> <<>>]
  ELSE [status |-> 200, engine |-> marketEngine,
        state |-> IF marketEngine \in DOMAIN engines
                  THEN <<engines[marketEngine]>> ELSE <<>>]

\* what is known of engine e now: the writes to its state, the executeTick
\* calls that involve it and the events published for it
Snapshot(e) ==
  [writes |-> writes[e],
   calls |-> {c \in tickCalls : c.by = e \/ c.on = e},
   events |-> {ev \in published : ev.by = e \/ ev.on = e}]

\* variant: stop answers without clearing anything
PostStopClearsNothing ==
  /\ startLog' = <<>>
  /\ frozen' = [e \in DOMAIN frozen \cup {t.engine : t \in timers} |->
                  IF e \in DOMAIN frozen THEN frozen[e] ELSE Snapshot(e)]
  /\ stoppedRounds' = {r.id : r \in rounds} \cup
                        {x \in stoppedRounds : \E t \in timers : t.by = x}
  /\ lastOp' = [op |-> "stop", result |-> 200, arg |-> IF Stopped THEN 1 ELSE 0]
  /\ UNCHANGED <<globalsVars, engines, writes, timers, starts, rounds, published,
                 nextEngine, nextTimer, tickCalls>>
  /\ UNCHANGED unitVars

PostStop ==
  /\ _isSimulationRunning' = clearSimulationInterval.running
  /\ timers' = clearSimulationInterval.timers
  /\ simulationInterval' = clearSimulationInterval.handle
  /\ marketEngine' = 0
  /\ agents' = <<>>
  /\ startLog' = <<>>
  /\ frozen' = [e \in DOMAIN frozen \cup {t.engine : t \in timers} |->
                  IF e \in DOMAIN frozen THEN frozen[e] ELSE Snapshot(e)]
  /\ stoppedRounds' = {r.id : r \in rounds} \cup
                        {x \in stoppedRounds :
                           \E t \in clearSimulationInterval.timers : t.by = x}
  /\ lastOp' = [op |-> "stop", result |-> 200, arg |-> IF Stopped THEN 1 ELSE 0]
  /\ engines' = reachable(engines, 0, starts)
  /\ UNCHANGED <<_isStarting, writes, starts, rounds, published, nextEngine,
                 nextTimer, tickCalls>>
  /\ UNCHANGED unitVars

(***************************************************************************)
(* scheduleNextTick                                                        *)
(***************************************************************************)
\* variant: the engine is tested for null only, not for identity
entryCheckNonNull(engine) ==
  IF ~isSimulationRunning THEN "stopped"
  ELSE IF marketEngine = 0 THEN "stale"
  ELSE IF Len(agents) = 0 THEN "noagents"
  ELSE "go"

\* the checks at the top of the callback: "stopped", "stale", "noagents",
\* or "go"
entryCheck(engine) ==
  IF ~isSimulationRunning THEN "stopped"
  ELSE IF marketEngine = 0 \/ marketEngine # engine THEN "stale"
  ELSE IF Len(agents) = 0 THEN "noagents"
  ELSE "go"

\* the check after the decisions were gathered, before executeTick
finalCheck(engine) == isSimulationRunning /\ marketEngine # 0

\* a timeout fires: the callback runs up to its first await (the first
\* agent's makeDecision), or returns
TimerFires(t) ==
  /\ timers' = timers \ {t}
  /\ lastOp' = [op |-> "callback", result |-> entryCheck(t.engine), arg |-> t.engine]
  /\ rounds' = IF entryCheck(t.engine) = "go"
               THEN rounds \cup {[id |-> t.id, engine |-> t.engine,
                                  agents |-> agents, i |-> 1, decisions |-> <<>>]}
               ELSE rounds
  /\ UNCHANGED <<globalsVars, engines, writes, starts, published, nextEngine,
                 nextTimer, startLog, tickCalls, frozen,
                 stoppedRounds>>
  /\ UNCHANGED unitVars

\* makeDecision of agent r.i returns and another agent is left to ask: the
\* loop checks the running flag and asks it, or the callback returns
DecisionReturns(r, answer) ==
  /\ r.i < Len(r.agents)
  /\ rounds' = IF isSimulationRunning
               THEN (rounds \ {r}) \cup
                    {[r EXCEPT !.i = @ + 1,
                               !.decisions = Append(@, [id |-> r.agents[r.i].id,
                                                        action |-> makeDecision(answer).action,
                                                        quantity |-> makeDecision(answer).quantity])]}
               ELSE rounds \ {r}
  /\ lastOp' = [op |-> "decision",
                result |-> IF isSimulationRunning THEN "go" ELSE "stopped",
                arg |-> r.engine, oracle |-> answer.ok,
                decision |-> makeDecision(answer)]
  /\ UNCHANGED <<globalsVars, engines, writes, timers, starts, published,
                 nextEngine, nextTimer, startLog, tickCalls, frozen,
                 stoppedRounds>>
  /\ UNCHANGED unitVars

\* the last makeDecision returned and the final check fails: the callback
\* returns and schedules nothing
RoundAbandoned(r, answer) ==
  /\ r.i = Len(r.agents)
  /\ ~finalCheck(r.engine)
  /\ rounds' = rounds \ {r}
  /\ lastOp' = [op |-> "round", result |-> "stopped", arg |-> r.engine,
                oracle |-> answer.ok, decision |-> makeDecision(answer)]
  /\ UNCHANGED <<globalsVars, engines, writes, timers, starts, published,
                 nextEngine, nextTimer, startLog, tickCalls, frozen,
                 stoppedRounds>>
  /\ UNCHANGED unitVars

\* the decisions of round r once its last agent has answered d
roundDecisions(r, d) ==
  Append(r.decisions, [id |-> r.agents[r.i].id, action |-> d.action,
                       quantity |-> d.quantity])

\* variant: the termination check reads the tick limit only
shouldStopAtLimitOnly(result) == maxTicks > 0 /\ result.tick >= maxTicks

\* the termination check on the market state a tick returned
shouldStop(result) ==
  \/ result.seller_inventory <= 0
  \/ (maxTicks > 0 /\ result.tick >= maxTicks)

\* the reason of the simulation_ended event
endReason(result) ==
  IF result.seller_inventory <= 0 THEN "inventory_depleted" ELSE "max_ticks_reached"

\* variant: the callback ends without a new timeout
nextTimeoutDropped(r) == {}

\* setTimeout(scheduleNextTick, tickMs) at the end of the callback of round r
nextTimeout(r) == {[id |-> nextTimer, engine |-> r.engine, by |-> r.id]}

\* the last makeDecision returned and the final check passes: executeTick on
\* the global engine, the tick event, the termination check, and the next
\* timeout if the simulation is still running
RoundExecuted(r, answer, noise) ==
  /\ r.i = Len(r.agents)
  /\ finalCheck(r.engine)
  /\ LET on == marketEngine
         d == makeDecision(answer)
         after == executeTickV1(engines[on], roundDecisions(r, d), noise)
         reason == endReason(after)
     IN  /\ engines' = reachable([engines EXCEPT ![on] = after],
                                 IF shouldStop(after) THEN 0 ELSE on, starts)
         /\ writes' = [writes EXCEPT ![on] = @ + 1]
         /\ tickCalls' = tickCalls \cup {[by |-> r.engine, on |-> on, tick |-> after.tick]}
         /\ rounds' = rounds \ {r}
         /\ IF shouldStop(after)
            THEN /\ published' = published \cup
                       {[type |-> "tick", by |-> r.engine, on |-> on, tick |-> after.tick,
                         reason |-> ""],
                        [type |-> "simulation_ended", by |-> r.engine, on |-> on,
                         tick |-> after.tick, reason |-> reason]}
                 /\ _isSimulationRunning' = clearSimulationInterval.running
                 /\ timers' = clearSimulationInterval.timers
                 /\ simulationInterval' = clearSimulationInterval.handle
                 /\ marketEngine' = 0
                 /\ agents' = <<>>
                 /\ startLog' = Append(startLog, "ended")
                 /\ lastOp' = [op |-> "round", result |-> reason, arg |-> r.engine,
                               oracle |-> answer.ok, decision |-> d]
                 /\ UNCHANGED nextTimer
            ELSE /\ nextTimer <= MaxTimers
                 /\ published' = published \cup
                       {[type |-> "tick", by |-> r.engine, on |-> on, tick |-> after.tick,
                         reason |-> ""]}
                 /\ timers' = timers \cup nextTimeout(r)
                 /\ simulationInterval' = nextTimer
                 /\ nextTimer' = nextTimer + 1
                 /\ lastOp' = [op |-> "round", result |-> "rescheduled",
                               arg |-> r.engine, oracle |-> answer.ok, decision |-> d]
                 /\ UNCHANGED <<_isSimulationRunning, marketEngine, agents, startLog>>
  /\ UNCHANGED <<_isStarting, starts, nextEngine, frozen, stoppedRounds>>
  /\ UNCHANGED unitVars

(***************************************************************************)
(* The lifecycle: initial state and steps                                  *)
(***************************************************************************)
LifecycleInit ==
  /\ _isStarting = FALSE
  /\ _isSimulationRunning = FALSE
  /\ marketEngine = 0
  /\ agents = <<>>
  /\ simulationInterval = 0
  /\ engines = <<>>
  /\ writes = <<>>
  /\ timers = {}
  /\ starts = {}
  /\ rounds = {}
  /\ published = {}
  /\ nextEngine = 1
  /\ nextTimer = 1
  /\ lastOp = [op |-> "none", result |-> 0, arg |-> 0]
  /\ startLog = <<>>
  /\ tickCalls = {}
  /\ frozen = <<>>
  /\ stoppedRounds = {}

(***************************************************************************)
(* The units at rest, and the lifecycle                                    *)
(***************************************************************************)
NoPricing ==
  [demand |-> 0, supply |-> 0, currentPrice |-> initialPrice, noise |-> 0,
   newPrice |-> initialPrice, result |-> initialPrice]

IdleCall ==
  [pc |-> "idle", valid |-> <<>>, k |-> 0, totalDemand |-> 0, totalSupply |-> 0,
   transactions |-> <<>>, priceBefore |-> 0,
   settlements |-> <<>>, prices_seen |-> <<>>, actions |-> <<>>]

NoTick ==
  [tick |-> 0, price_before |-> 0, price_after |-> 0, decisions |-> <<>>,
   executed_transactions |-> <<>>,
   settlements |-> <<>>, prices_seen |-> <<>>, actions |-> <<>>]

\* no accessor was called yet
NothingHeld ==
  [taken |-> FALSE,
   market |-> [tick |-> 0, current_price |-> 0, seller_inventory |-> 0,
               seller_revenue |-> 0],
   agents |-> [money |-> [a \in Participants |-> 0],
               inventory |-> [a \in Participants |-> 0]],
   history |-> <<>>]

\* no listener is subscribed and nothing was broadcast
NoBroadcast ==
  [eventListeners |-> <<>>, data |-> "", atCall |-> <<>>, called |-> <<>>,
   threw |-> {}, returned |-> TRUE]

\* an agent that is not initialized
NoWallet ==
  [initialized |-> FALSE, DEV_MODE |-> FALSE, MERCHANT_WALLET_ADDRESS |-> "",
   locusTools |-> {}, safeTools |-> {}, sent |-> {}, results |-> {}]

NotSanitized ==
  [raw |-> <<>>, once |-> <<>>, twice |-> <<>>, transactions |-> <<>>,
   after |-> IdleCall]

Init ==
  /\ LifecycleInit
  /\ pricing = NoPricing
  /\ market = newMarketEngine(initialPrice, initialInventory,
                              [a \in Participants |-> 0],
                              [a \in Participants |-> 0], {})
  /\ call = IdleCall
  /\ lastTick = NoTick
  /\ sanitized = NotSanitized
  /\ held = NothingHeld
  /\ sse = NoBroadcast
  /\ wallet = NoWallet

Next ==
  \/ StartRejected
  \/ StartAccepted
  \/ \E s \in starts : InitializeDone(s)
  \/ \E s \in starts : InitializeFailed(s)
  \/ \E s \in starts : \E b \in Balances : BalanceFetched(s, b)
  \/ PostStop
  \/ \E t \in timers : TimerFires(t)
  \/ \E r \in rounds : \E a \in OracleAnswers : DecisionReturns(r, a)
  \/ \E r \in rounds : \E a \in OracleAnswers : RoundAbandoned(r, a)
  \/ \E r \in rounds : \E a \in OracleAnswers : \E n \in RoundNoise : RoundExecuted(r, a, n)

Spec == Init /\ [][Next]_vars

\* a due timeout callback runs
TimerStep == \E t \in timers : TimerFires(t)

\* a pending makeDecision call returns and the callback runs on from it
RoundStep ==
  \E r \in rounds : \E a \in OracleAnswers :
    \/ DecisionReturns(r, a)
    \/ RoundAbandoned(r, a)
    \/ \E n \in RoundNoise : RoundExecuted(r, a, n)

\* RoundStep can be taken: a round waits for an answer, and the callback
\* can run on from some answer
roundStepEnabled ==
  \E r \in rounds :
    \/ r.i < Len(r.agents)
    \/ r.i = Len(r.agents) /\ ~finalCheck(r.engine)
    \/ /\ r.i = Len(r.agents)
       /\ finalCheck(r.engine)
       /\ \E a \in OracleAnswers : \E n \in RoundNoise :
            \/ nextTimer <= MaxTimers
            \/ shouldStop(executeTickV1(engines[marketEngine],
                                        roundDecisions(r, makeDecision(a)), n))

\* the lifecycle when due timers fire and the external calls of a round
\* return: weak fairness of TimerStep and of RoundStep
FairSpec ==
  /\ Spec
  /\ WF_vars(TimerStep)
  /\ ([]<>~roundStepEnabled \/ []<><<RoundStep>>_vars)

(***************************************************************************)
(* PricingEngine on its own                                                *)
(***************************************************************************)
\* net flows, with those that make the unclamped price zero or negative
Demands == {-25, -20, -3, -1, 0, 1, 3, 25}
\* baselines; the code treats a baseline that is not positive as 0
Supplies == {-3, 0, 3}
CurrentPrices == {minPrice, 2, initialPrice, 5000, maxPrice}

PricingInit ==
  /\ LifecycleInit
  /\ pricing = NoPricing
  /\ market = newMarketEngine(initialPrice, initialInventory,
                              [a \in Participants |-> 0],
                              [a \in Participants |-> 0], {})
  /\ call = IdleCall
  /\ lastTick = NoTick
  /\ sanitized = NotSanitized
  /\ held = NothingHeld
  /\ sse = NoBroadcast
  /\ wallet = NoWallet

\* one call of calculatePriceChange
Calculate(demand, supply, currentPrice, noise) ==
  /\ pricing' = [demand |-> demand, supply |-> supply,
                 currentPrice |-> currentPrice, noise |-> noise,
                 newPrice |-> unclampedPrice(demand, supply, currentPrice, noise),
                 result |-> calculatePriceChange(demand, supply, currentPrice, noise)]
  /\ UNCHANGED <<lifecycleVars, sanitized, serviceVars, engineVars>>

PricingNext ==
  \E demand \in Demands : \E supply \in Supplies :
    \E currentPrice \in CurrentPrices : \E noise \in NoiseValues :
      Calculate(demand, supply, currentPrice, noise)

PricingSpec == PricingInit /\ [][PricingNext]_vars

(***************************************************************************)
(* MarketEngine (unnamed/part_008) on its own: a sequence of rounds        *)
(***************************************************************************)
\* executeTick calls in one behaviour
MaxRounds == 2

\* what the engine is built with
EngineInventories == {3}
AgentMoney == {0, 600}
AgentHoldings == {1, 13}
InstanceSets == {Participants, {"buyer_1"}}

\* raw decisions, and the batches of them: at most two entries, of
\* different ids
RawActions == {"buy", "sell", "wait"}
\* raw quantities, in tenths: -0.5, 2 and 9.5
RawQuantities == {-5, 20, 95}
RawDecisions(id) ==
  {[id |-> id, action |-> a, quantity |-> q] : a \in RawActions, q \in RawQuantities}
BatchIds == Participants \cup {UnknownId}
Batches ==
  {<<>>}
  \cup UNION {{<<d>> : d \in RawDecisions(i)} : i \in BatchIds}
  \cup UNION {{<<d1, d2>> : d1 \in RawDecisions(i[1]), d2 \in RawDecisions(i[2])} :
                i \in {p \in BatchIds \X BatchIds : p[1] # p[2]}}

Outcomes == {"success", "failure", "throw"}

\* the noise drawn in the rounds of EngineSpec
EngineNoise == {9}

EngineInit ==
  /\ LifecycleInit
  /\ pricing = NoPricing
  /\ market \in {newMarketEngine(initialPrice, inv, money, holdings, instances) :
                   inv \in EngineInventories,
                   money \in [Participants -> AgentMoney],
                   holdings \in [Participants -> AgentHoldings],
                   instances \in InstanceSets}
  /\ call = IdleCall
  /\ lastTick = NoTick
  /\ sanitized = NotSanitized
  /\ held = NothingHeld
  /\ sse = NoBroadcast
  /\ wallet = NoWallet

\* executeTick goes on from the loop state st: it suspends at the next
\* settlement, or sets the new price, records the TickResult and returns
resume(st, noise) ==
  IF st.k > Len(st.valid)
  THEN LET priceAfter == priceAfterTick(st, noise)
       IN  /\ market' = [st.m EXCEPT !.current_price = priceAfter,
                                     !.tickHistory = pushTickResult(@, st.m.tick)]
           /\ call' = IdleCall
           /\ lastTick' = [tick |-> st.m.tick, price_before |-> st.priceBefore,
                           price_after |-> priceAfter, decisions |-> st.valid,
                           executed_transactions |-> st.transactions,
                           settlements |-> st.settlements,
                           prices_seen |-> st.prices_seen,
                           actions |-> st.actions]
  ELSE /\ market' = st.m
       /\ call' = [pc |-> "await", valid |-> st.valid, k |-> st.k,
                   totalDemand |-> st.totalDemand, totalSupply |-> st.totalSupply,
                   transactions |-> st.transactions, priceBefore |-> st.priceBefore,
                   settlements |-> st.settlements, prices_seen |-> st.prices_seen,
                   actions |-> st.actions]
       /\ UNCHANGED lastTick

\* variant: the tick counter is not incremented on entry
ExecuteTickKeepsCounter(decisions, noise) ==
  /\ call.pc = "idle"
  /\ market.tick < MaxRounds
  /\ resume(tradeLoop(loopStart(market, sanitizeDecisions(market, decisions))),
            noise)
  /\ UNCHANGED <<lifecycleVars, pricing, sanitized, serviceVars>>

\* variant: the loop runs over the raw entries of the known agents, their
\* quantities floored and non-negated but not capped
ExecuteTickAppliesRaw(decisions, noise) ==
  /\ call.pc = "idle"
  /\ market.tick < MaxRounds
  /\ resume(tradeLoop(loopStart(
         [market EXCEPT !.tick = @ + 1],
         LET known == SelectSeq(decisions, LAMBDA d : d.id \in DOMAIN market.money)
         IN  [i \in 1..Len(known) |->
                [known[i] EXCEPT !.quantity = requestedQuantity(@)]])), noise)
  /\ UNCHANGED <<lifecycleVars, pricing, sanitized, serviceVars>>

\* executeTick(decisions) is called and runs to its first await or its end
ExecuteTick(decisions, noise) ==
  /\ call.pc = "idle"
  /\ market.tick < MaxRounds
  /\ resume(tradeLoop(loopStart([market EXCEPT !.tick = @ + 1],
                                sanitizeDecisions(market, decisions))), noise)
  /\ UNCHANGED <<lifecycleVars, pricing, sanitized, serviceVars>>

\* the awaited settlement returns and executeTick runs on
SettlementReturns(outcome, noise) ==
  /\ call.pc = "await"
  /\ resume(tradeLoop(settle([m |-> market, valid |-> call.valid, k |-> call.k,
                              totalDemand |-> call.totalDemand,
                              totalSupply |-> call.totalSupply,
                              transactions |-> call.transactions,
                              priceBefore |-> call.priceBefore,
                              settlements |-> call.settlements,
                              prices_seen |-> call.prices_seen,
                              actions |-> call.actions], outcome)), noise)
  /\ UNCHANGED <<lifecycleVars, pricing, sanitized, serviceVars>>

EngineNext ==
  \/ \E decisions \in Batches : \E noise \in EngineNoise : ExecuteTick(decisions, noise)
  \/ \E outcome \in Outcomes : \E noise \in EngineNoise : SettlementReturns(outcome, noise)

EngineSpec == EngineInit /\ [][EngineNext]_vars

(***************************************************************************)
(* MarketEngine (unnamed/part_008): a long run of rounds, for tickHistory  *)
(***************************************************************************)
\* executeTick calls in one behaviour of HistorySpec
MaxHistoryTicks == 103

\* the batches of HistorySpec: nothing, or one agent that waits
HistoryBatches == {<<>>, <<[id |-> "buyer_1", action |-> "wait", quantity |-> 0]>>}

\* executeTick(decisions) of a batch without trades: it runs to its end
HistoryTick(decisions, noise) ==
  /\ call.pc = "idle"
  /\ market.tick < MaxHistoryTicks
  /\ resume(tradeLoop(loopStart([market EXCEPT !.tick = @ + 1],
                                sanitizeDecisions(market, decisions))), noise)
  /\ UNCHANGED <<lifecycleVars, pricing, sanitized, serviceVars>>

HistoryNext ==
  \E decisions \in HistoryBatches : \E noise \in RoundNoise :
    HistoryTick(decisions, noise)

HistorySpec == Init /\ [][HistoryNext]_vars

(***************************************************************************)
(* sanitizeDecisions (unnamed/part_008) on its own: one call on a raw      *)
(* batch, a second call on its result, and the transactions of the tick    *)
(* that executes the batch                                                 *)
(***************************************************************************)
\* the market the batch is sanitized against
SanitizeInventories == {0, 3, 1000}
SanitizePrices == {7, initialPrice}
SanitizeMoney ==
  {[a \in Participants |-> IF a = "buyer_1" THEN x ELSE 600] : x \in {0, fallbackBalance}}
SanitizeHoldings ==
  {[a \in Participants |-> IF a = "buyer_1" THEN x ELSE 1] : x \in {0, 13}}
SanitizeSpendPercents ==
  {[a \in Participants |-> IF a = "buyer_1" THEN x ELSE 100] : x \in {0, 30}}

\* raw quantities, in tenths: -0.5, 2, 9.5 and 1000
SanitizeQuantities == RawQuantities \cup {10000}
\* the actions of the raw decisions, and one that is none of them
SanitizeActions == RawActions \cup {"hold"}
SanitizeDecisions(id) ==
  {[id |-> id, action |-> a, quantity |-> q] : a \in SanitizeActions, q \in SanitizeQuantities}
SanitizeBatches ==
  {<<>>}
  \cup UNION {{<<d>> : d \in SanitizeDecisions(i)} : i \in BatchIds}
  \cup UNION {{<<d1, d2>> : d1 \in SanitizeDecisions(i[1]), d2 \in SanitizeDecisions(i[2])} :
                i \in {p \in BatchIds \X BatchIds : p[1] # p[2]}}

SanitizeInit ==
  /\ LifecycleInit
  /\ pricing = NoPricing
  /\ market \in {[newMarketEngine(price, inv, money, holdings, Participants)
                     EXCEPT !.max_spend_percent = percents] :
                   price \in SanitizePrices, inv \in SanitizeInventories,
                   money \in SanitizeMoney, holdings \in SanitizeHoldings,
                   percents \in SanitizeSpendPercents}
  /\ call = IdleCall
  /\ lastTick = NoTick
  /\ sanitized = NotSanitized
  /\ held = NothingHeld
  /\ sse = NoBroadcast
  /\ wallet = NoWallet

\* a sanitized batch handed to sanitizeDecisions again: the same numbers,
\* written in tenths
asRaw(decisions) ==
  [i \in 1..Len(decisions) |-> [decisions[i] EXCEPT !.quantity = @ * Tenths]]

\* the loop of executeTick from st to its end, every settlement succeeding
RECURSIVE allSettled(_)
allSettled(st) ==
  IF st.k > Len(st.valid) THEN st
  ELSE allSettled(tradeLoop(settle(st, "success")))

\* the loop of executeTick(decisions) on market m at its end
executedTick(m, decisions) ==
  allSettled(tradeLoop(loopStart([m EXCEPT !.tick = @ + 1],
                                 sanitizeDecisions(m, decisions))))

\* the executed_transactions of executeTick(decisions) on market m
executedTransactions(m, decisions) == executedTick(m, decisions).transactions

\* sanitizeDecisions(decisions), sanitizeDecisions of its result, and the
\* tick on the same batch: one call in a behaviour
Sanitize(decisions) ==
  /\ sanitized = NotSanitized
  /\ sanitized' =
       [raw |-> decisions,
        once |-> sanitizeDecisions(market, decisions),
        twice |-> sanitizeDecisions(market, asRaw(sanitizeDecisions(market, decisions))),
        transactions |-> executedTransactions(market, decisions),
        after |-> executedTick(market, decisions)]
  /\ UNCHANGED <<lifecycleVars, pricing, serviceVars, engineVars>>

SanitizeNext == \E decisions \in SanitizeBatches : Sanitize(decisions)

SanitizeSpec == SanitizeInit /\ [][SanitizeNext]_vars

(***************************************************************************)
(* The accessors of MarketEngine (unnamed/part_008): a caller takes what   *)
(* getMarketState, getAgents and getTickHistory return and keeps it while  *)
(* the engine goes on                                                      *)
(***************************************************************************)
\* the batches of the ticks of AccessorSpec: at most one entry
AccessorBatches == {b \in Batches : Len(b) <= 1}

\* getMarketState(): { ...this.marketState }, a copy of the fields
getMarketState(m) ==
  [tick |-> m.tick, current_price |-> m.current_price,
   seller_inventory |-> m.seller_inventory, seller_revenue |-> m.seller_revenue]

\* getAgents(): a new array of the agent state objects of the engine
getAgents(m) == [money |-> m.money, inventory |-> m.inventory]

\* getTickHistory(): the tickHistory array of the engine
getTickHistory(m) == m.tickHistory

\* the caller calls the three accessors, as GET /api/market does; held
\* records what they show at the time of the call
GetSnapshots ==
  /\ ~held.taken
  /\ held' = [taken |-> TRUE, market |-> getMarketState(market),
              agents |-> getAgents(market), history |-> getTickHistory(market)]
  /\ UNCHANGED <<lifecycleVars, pricing, sanitized, sse, wallet, engineVars>>

\* what the caller reads now in the values it was given: the market state
\* is its own copy; the elements of the agents array are the engine's
\* objects and the history array is the engine's array, so these show what
\* the engine has now
marketHeld == held.market
agentsHeld == IF held.taken THEN getAgents(market) ELSE held.agents
historyHeld == IF held.taken THEN getTickHistory(market) ELSE held.history

AccessorNext ==
  \/ GetSnapshots
  \/ \E decisions \in AccessorBatches : \E noise \in EngineNoise :
       ExecuteTick(decisions, noise)
  \/ \E outcome \in Outcomes : \E noise \in EngineNoise : SettlementReturns(outcome, noise)

AccessorSpec == EngineInit /\ [][AccessorNext]_vars

(***************************************************************************)
(* broadcastEvent and the listeners of GET /api/stream                     *)
(***************************************************************************)
\* the listener functions that GET /api/stream can add
Listeners == {"l1", "l2", "l3"}
\* the events the round loop broadcasts
Events == {"tick", "simulation_ended"}

\* the string a listener is called with
message(data) == <<"data: ", data, "\n\n">>

\* variant: the listener is called outside a try block; the first listener
\* that throws ends the loop and the error leaves broadcastEvent
broadcastEventNoCatch(listeners, data, broken) ==
  LET failing == {i \in 1..Len(listeners) : listeners[i] \in broken}
      last == IF failing = {} THEN Len(listeners)
              ELSE CHOOSE i \in failing : \A j \in failing : i <= j
  IN  [eventListeners |-> listeners,
       called |-> [i \in 1..last |-> [listener |-> listeners[i],
                                      message |-> message(data)]],
       threw |-> {listeners[i] : i \in failing \cap {last}},
       returned |-> failing = {}]

\* broadcastEvent(data) when the listeners in broken throw: the loop calls
\* every listener of the Set in insertion order with the same message and
\* deletes those that throw
broadcastEvent(listeners, data, broken) ==
  [eventListeners |-> SelectSeq(listeners, LAMBDA l : l \notin broken),
   called |-> [i \in 1..Len(listeners) |-> [listener |-> listeners[i],
                                            message |-> message(data)]],
   threw |-> {listeners[i] : i \in {j \in 1..Len(listeners) : listeners[j] \in broken}},
   returned |-> TRUE]

\* GET /api/stream: the stream's listener is added to the Set
Subscribe(l) ==
  /\ \A i \in 1..Len(sse.eventListeners) : sse.eventListeners[i] # l
  /\ sse' = [sse EXCEPT !.eventListeners = Append(@, l)]
  /\ UNCHANGED <<lifecycleVars, pricing, sanitized, held, wallet, engineVars>>

\* the round loop broadcasts an event
Broadcast(data, broken) ==
  /\ LET b == broadcastEvent(sse.eventListeners, data, broken)
     IN  sse' = [eventListeners |-> b.eventListeners, data |-> data,
                 atCall |-> sse.eventListeners, called |-> b.called,
                 threw |-> b.threw, returned |-> b.returned]
  /\ UNCHANGED <<lifecycleVars, pricing, sanitized, held, wallet, engineVars>>

BroadcastNext ==
  \/ \E l \in Listeners : Subscribe(l)
  \/ \E data \in Events : \E broken \in SUBSET Listeners : Broadcast(data, broken)

BroadcastSpec == Init /\ [][BroadcastNext]_vars

(***************************************************************************)
(* BaseAgent: the tools of an agent and the purchase payment               *)
(***************************************************************************)
\* the tools the Locus MCP server can offer
LocusToolNames == {"send_to_address", "send_to_email", "get_payment_context"}
\* MERCHANT_WALLET_ADDRESS of the environment: unset, or the merchant's
MerchantAddresses == {"", "0xMERCHANT"}
\* what the model passes to purchase_apples: a quantity, and an address
\* key that the tool's schema does not have
ToolInputs == [quantity : {1, 2}, address : {"", "0xMERCHANT", "0xATTACKER"}]

\* the environment is set and no agent is initialized
PaymentInit ==
  /\ LifecycleInit
  /\ pricing = NoPricing
  /\ market = newMarketEngine(initialPrice, initialInventory,
                              [a \in Participants |-> 0],
                              [a \in Participants |-> 0], {})
  /\ call = IdleCall
  /\ lastTick = NoTick
  /\ sanitized = NotSanitized
  /\ held = NothingHeld
  /\ sse = NoBroadcast
  /\ \E dev \in BOOLEAN : \E address \in MerchantAddresses :
       wallet = [NoWallet EXCEPT !.DEV_MODE = dev,
                                 !.MERCHANT_WALLET_ADDRESS = address]

\* the tools createReactAgent is given
safeTools(locusTools) ==
  {"purchase_apples", "sell_apples"} \cup (locusTools \cap {"get_payment_context"})

\* variant: the payment goes to the address of the tool input when it has one
purchase_applesToInputAddress(w, input) ==
  IF w.DEV_MODE THEN [success |-> TRUE, payments |-> {}]
  ELSE IF "send_to_address" \notin w.locusTools THEN [success |-> FALSE, payments |-> {}]
  ELSE IF w.MERCHANT_WALLET_ADDRESS = "" THEN [success |-> FALSE, payments |-> {}]
  ELSE [success |-> TRUE,
        payments |-> {[address |-> IF input.address # "" THEN input.address
                                   ELSE w.MERCHANT_WALLET_ADDRESS,
                       amount |-> input.quantity * initialPrice]}]

\* func of purchase_apples: its result and the send_to_address calls made
purchase_apples(w, input) ==
  IF w.DEV_MODE THEN [success |-> TRUE, payments |-> {}]
  ELSE IF "send_to_address" \notin w.locusTools THEN [success |-> FALSE, payments |-> {}]
  ELSE IF w.MERCHANT_WALLET_ADDRESS = "" THEN [success |-> FALSE, payments |-> {}]
  ELSE [success |-> TRUE,
        payments |-> {[address |-> w.MERCHANT_WALLET_ADDRESS,
                       amount |-> input.quantity * initialPrice]}]

\* initialize(): the MCP tools are loaded and the agent is created
Initialize(tools) ==
  /\ ~wallet.initialized
  /\ wallet' = [wallet EXCEPT !.initialized = TRUE, !.locusTools = tools,
                              !.safeTools = safeTools(tools)]
  /\ UNCHANGED <<lifecycleVars, pricing, sanitized, held, sse, engineVars>>

\* the agent calls purchase_apples with an input of its choice
Purchase(input) ==
  /\ wallet.initialized
  /\ LET p == purchase_apples(wallet, input)
     IN  wallet' = [wallet EXCEPT
                      !.sent = @ \cup {[input |-> input, address |-> x.address,
                                        amount |-> x.amount] : x \in p.payments},
                      !.results = @ \cup {[input |-> input, success |-> p.success]}]
  /\ UNCHANGED <<lifecycleVars, pricing, sanitized, held, sse, engineVars>>

PaymentNext ==
  \/ \E tools \in SUBSET LocusToolNames : Initialize(tools)
  \/ \E input \in ToolInputs : Purchase(input)

PaymentSpec == PaymentInit /\ [][PaymentNext]_vars

(***************************************************************************)
(* Properties of the lifecycle (checked under Spec)                        *)
(***************************************************************************)
\* the positions of startLog that hold an accepted start
accepted == {i \in 1..Len(startLog) : startLog[i] = "accepted"}

\* C1 as stated: of the start() requests that arrive with no stop() in
\* between, at most one is accepted
C1_OneAcceptedBetweenStops == Cardinality(accepted) <= 1

\* C1: with no stop() in between, an accepted start() is followed by another
\* accepted start() only after the first failed to initialize or its
\* simulation ended by itself; until then a start() that arrives is rejected
C1_SecondStartRejected ==
  /\ \A i \in accepted : \A j \in accepted :
       i < j => \E k \in (i + 1)..(j - 1) : startLog[k] \in {"failed", "ended"}
  /\ (Len(startLog) > 0 /\ startLog[Len(startLog)] = "accepted") => CannotStart

\* a second start() was rejected while the first, accepted, is still starting
C1_Witness ==
  /\ startLog = <<"accepted">>
  /\ isStarting
  /\ lastOp.op = "start"
  /\ lastOp.result = 409

\* C2: an engine that had a round scheduled when stop() was called is as the
\* stop() left it: no executeTick call involves it, no write changes its
\* state, no event is published for it
C2_StoppedRoundNeverExecutes ==
  \A e \in DOMAIN frozen :
    /\ Snapshot(e) = frozen[e]
    /\ marketEngine # e
    /\ \A r \in rounds : r.engine # e

\* the timer of a stopped engine was not cancelled, fired and returned
C2_Witness ==
  /\ lastOp.op = "callback"
  /\ lastOp.arg \in DOMAIN frozen
  /\ lastOp.result \in {"stopped", "stale"}

\* C3: every executeTick call of a round is on the engine the round was
\* scheduled for
C3_RoundTicksOwnEngine == \A c \in tickCalls : c.by = c.on

\* C4: at most one round is in progress
C4_NoOverlappingRounds == Cardinality(rounds) <= 1

\* C5: a callback whose engine is not the active engine returns at once: it
\* gathers no decision, executes no tick, publishes nothing and changes no
\* lifecycle variable and no engine
C5_StaleCallbackExits ==
  [][\A t \in timers :
       (TimerFires(t) /\ marketEngine # t.engine) =>
         UNCHANGED <<globalsVars, engines, writes, starts, rounds, published,
                     tickCalls>>]_vars

\* the callback of an earlier simulation fired while a later one is running
C5_Witness ==
  /\ lastOp.op = "callback"
  /\ lastOp.result = "stale"
  /\ isSimulationRunning
  /\ marketEngine # 0
  /\ marketEngine # lastOp.arg

\* C6: at most one timer is pending, and the pending timers and the rounds in
\* progress all belong to one simulation
C6_OneChain ==
  /\ Cardinality(timers) <= 1
  /\ Cardinality({t.engine : t \in timers} \cup {r.engine : r \in rounds}) <= 1

\* C11: no pending timer was set by a round that was in progress at a stop()
C11_StoppedRoundSchedulesNothing == \A t \in timers : t.by \notin stoppedRounds

\* C9: a start() that arrives while the lock is set, the simulation runs, an
\* engine is active or a handle is held is rejected with 409 and leaves the
\* lifecycle variables as they were
C9_BusyStartRejected ==
  [][(/\ PostStart
      /\ (isStarting \/ isSimulationRunning \/ marketEngine # 0 \/ simulationInterval # 0))
       => /\ lastOp' = [op |-> "start", result |-> 409, arg |-> 0]
          /\ UNCHANGED <<globalsVars, engines, timers, starts, rounds>>]_vars

\* a start() was rejected while a simulation is running
C9_Witness ==
  /\ lastOp.op = "start"
  /\ lastOp.result = 409
  /\ isSimulationRunning
  /\ marketEngine # 0
  /\ ~isStarting

\* C10: every stop() reports success and leaves the lifecycle stopped; a
\* stop() of a stopped lifecycle changes nothing
C10_StopIdempotent ==
  [][PostStop =>
       /\ Stopped'
       /\ lastOp'.result = 200
       /\ Stopped => UNCHANGED <<globalsVars, engines, writes, timers, starts,
                                 rounds, published, tickCalls>>]_vars

\* a stop() acted on a lifecycle that was already stopped
C10_Witness ==
  /\ lastOp.op = "stop"
  /\ lastOp.arg = 1
  /\ lastOp.result = 200
  /\ Stopped

\* the round-loop steps in which the oracle failed for the agent asked
oracleFailed == lastOp.op \in {"decision", "round"} /\ ~lastOp.oracle

\* C22: when the oracle fails for an agent, the agent's decision is wait 0;
\* the round goes on to ask the next agent, or, at the last agent, to
\* executeTick and what follows it, unless the simulation was stopped
C22_OracleFailureIsWait ==
  oracleFailed =>
    /\ lastOp.decision = [action |-> "wait", quantity |-> 0]
    /\ (lastOp.op = "decision" /\ lastOp.result = "go") =>
         \E r \in rounds :
           /\ r.engine = lastOp.arg
           /\ r.i = Len(r.decisions) + 1
           /\ r.decisions[Len(r.decisions)].action = "wait"
           /\ r.decisions[Len(r.decisions)].quantity = 0
    /\ lastOp.op = "round" =>
         \/ lastOp.result = "stopped" /\ ~finalCheck(lastOp.arg)
         \/ /\ lastOp.result \in {"rescheduled", "inventory_depleted", "max_ticks_reached"}
            /\ \E c \in tickCalls : c.by = lastOp.arg
            /\ \E ev \in published : ev.type = "tick" /\ ev.by = lastOp.arg

\* the oracle failed for the last agent of a round and the round executed
\* a tick in which another agent bought
C22_Witness ==
  /\ oracleFailed
  /\ lastOp.op = "round"
  /\ lastOp.result = "rescheduled"
  /\ marketEngine # 0
  /\ engines[marketEngine].seller_inventory < initialInventory

\* C26: after a stop of a simulation that had a round scheduled, the market
\* query still answers with the state of the stopped simulation
C26_StateReadableAfterStop ==
  (lastOp.op = "stop" /\ lastOp.arg = 0 /\ DOMAIN frozen # {}) =>
    /\ GET_market.status = 200
    /\ GET_market.engine \in DOMAIN frozen
    /\ GET_market.state # <<>>

\* round n of engine e is complete: its tick was executed, no termination
\* condition held and the simulation of e is running
roundCompleted(e, n) ==
  /\ [by |-> e, on |-> e, tick |-> n] \in tickCalls
  /\ isSimulationRunning
  /\ marketEngine = e
  /\ e \in DOMAIN engines
  /\ engines[e].tick = n

\* C23: a completed round of the running simulation is eventually followed
\* by the next executed round, unless the simulation is stopped or ends (or
\* the behaviour has used all its MaxTimers timeouts)
C23_NextRoundEventually ==
  \A e \in 1..MaxEngines : \A n \in 1..maxTicks :
    roundCompleted(e, n) ~>
      \/ [by |-> e, on |-> e, tick |-> n + 1] \in tickCalls
      \/ ~isSimulationRunning
      \/ marketEngine # e
      \/ nextTimer > MaxTimers

\* round 2 of an engine was executed after its round 1, in which the oracle
\* had failed or answered wait for every agent
C23_Witness ==
  \E e \in 1..MaxEngines :
    /\ [by |-> e, on |-> e, tick |-> 1] \in tickCalls
    /\ [by |-> e, on |-> e, tick |-> 2] \in tickCalls
    /\ nextTimer <= MaxTimers

\* C24: when a listener throws during a broadcast, broadcastEvent returns
\* to the round loop without an error and every listener that was subscribed
\* has been called once, in order, with the message of the event
C24_FailingListenerIsolated ==
  sse.threw # {} =>
    /\ sse.returned
    /\ Len(sse.called) = Len(sse.atCall)
    /\ \A i \in 1..Len(sse.atCall) :
         sse.called[i] = [listener |-> sse.atCall[i], message |-> message(sse.data)]

\* a listener threw and one subscribed after it was called in the same
\* broadcast without throwing
C24_Witness ==
  \E i, j \in 1..Len(sse.called) :
    /\ i < j
    /\ sse.called[i].listener \in sse.threw
    /\ sse.called[j].listener \notin sse.threw
    /\ sse.returned

\* C27: every payment of a purchase goes to MERCHANT_WALLET_ADDRESS, whatever
\* input the agent gave to the tool (two purchases with different inputs pay
\* the same address), and the agent's tools never include send_to_address or
\* send_to_email
C27_PaymentsToMerchantOnly ==
  /\ \A p \in wallet.sent :
       /\ p.address = wallet.MERCHANT_WALLET_ADDRESS
       /\ p.address # ""
  /\ \A p, q \in wallet.sent : p.address = q.address
  /\ wallet.safeTools \cap {"send_to_address", "send_to_email"} = {}

\* two payments were sent for inputs that name different addresses, one of
\* them not the merchant's, by an agent whose MCP server offers both raw
\* tools
C27_Witness ==
  /\ {"send_to_address", "send_to_email"} \subseteq wallet.locusTools
  /\ wallet.safeTools # {}
  /\ \E p, q \in wallet.sent :
       /\ p.input.address = "0xATTACKER"
       /\ q.input.address = ""

\* C31: tickHistory never holds more than 100 results, and it holds the
\* results of the last min(ticks, 100) ticks in tick order
C31_HistoryBounded ==
  /\ Len(market.tickHistory) <= 100
  /\ Len(market.tickHistory) = Min(market.tick, 100)
  /\ \A i \in 1..Len(market.tickHistory) :
       market.tickHistory[i] = market.tick - Len(market.tickHistory) + i

\* the 101st result was pushed and the first was dropped
C31_Witness ==
  /\ market.tick = 101
  /\ Len(market.tickHistory) = 100
  /\ market.tickHistory[1] = 2

\* C35: with a baseline of 0 and a current price within the bounds, a net
\* flow of 1 or more never gives a price below the current one and a net
\* flow of -1 or less never gives a price above it, whatever the noise
C35_PriceFollowsFlow ==
  (pricing.supply <= 0 /\ pricing.currentPrice \in minPrice..maxPrice) =>
    /\ pricing.demand >= 1 => pricing.result >= pricing.currentPrice
    /\ pricing.demand <= -1 => pricing.result <= pricing.currentPrice

\* a net flow of 1 with the lowest noise raised the price
C35_Witness ==
  /\ pricing.supply <= 0
  /\ pricing.demand = 1
  /\ pricing.noise = -10
  /\ pricing.currentPrice = initialPrice
  /\ pricing.result > pricing.currentPrice

\* C38: whenever the running flag is set and no start is in progress, an
\* engine is installed and the list of agents is not empty
C38_RunningHasEngine ==
  (_isSimulationRunning /\ ~_isStarting) => (marketEngine # 0 /\ agents # <<>>)

\* the units bought minus the units sold in a sequence of transactions
RECURSIVE netFlow(_)
netFlow(transactions) ==
  IF transactions = <<>> THEN 0
  ELSE (IF Head(transactions).action = "buy" THEN Head(transactions).quantity
        ELSE 0 - Head(transactions).quantity) + netFlow(Tail(transactions))

\* C32: the net flow given to the pricing function is the units of the
\* executed buys minus the units of the executed sells of the tick, and the
\* new price is computed from the price at the start of the tick, at which
\* every transaction of the tick was made
C32_NetFlowOfExecuted ==
  /\ call.pc = "await" =>
       /\ call.totalDemand - call.totalSupply = netFlow(call.transactions)
       /\ call.priceBefore = market.current_price
       /\ \A i \in 1..Len(call.transactions) :
            call.transactions[i].price = call.priceBefore
  /\ (call.pc = "idle" /\ lastTick.tick > 0) =>
       /\ \E noise \in EngineNoise :
            lastTick.price_after =
              calculatePriceChange(netFlow(lastTick.executed_transactions), 0,
                                   lastTick.price_before, noise)
       /\ market.current_price = lastTick.price_after
       /\ \A i \in 1..Len(lastTick.executed_transactions) :
            lastTick.executed_transactions[i].price = lastTick.price_before

\* a second tick in which a buy and a sell were executed
C32_Witness ==
  /\ call.pc = "idle"
  /\ \E i, j \in 1..Len(lastTick.executed_transactions) :
       /\ lastTick.executed_transactions[i].action = "buy"
       /\ lastTick.executed_transactions[j].action = "sell"
  /\ netFlow(lastTick.executed_transactions) # 0
  /\ lastTick.tick = 2

\* C12: when a start() has failed, the lock is released, the lifecycle is
\* stopped and a start() that arrives now is accepted
C12_FailedStartCleansUp ==
  (lastOp.op = "start" /\ lastOp.result = 500) =>
    /\ ~isStarting
    /\ Stopped
    /\ ~CannotStart

\* a start() was accepted right after one that failed
C12_Witness ==
  \E i \in 1..(Len(startLog) - 1) :
    startLog[i] = "failed" /\ startLog[i + 1] = "accepted"

\* the simulation_ended events
ended == {ev \in published : ev.type = "simulation_ended"}

\* C13: a round whose tick leaves no inventory publishes simulation_ended
\* with reason inventory_depleted, schedules nothing and stops the
\* simulation; the engine is not ticked after that
C13_DepletionEndsSimulation ==
  /\ [](\A ev \in ended : \A c \in tickCalls :
          c.on = ev.on => c.tick <= ev.tick /\ marketEngine # ev.on)
  /\ [][\A r \in rounds : \A a \in OracleAnswers : \A n \in RoundNoise :
          (/\ RoundExecuted(r, a, n)
           /\ executeTickV1(engines[marketEngine], roundDecisions(r, makeDecision(a)),
                            n).seller_inventory <= 0)
            => /\ \E ev \in ended' \ ended :
                    /\ ev.on = marketEngine
                    /\ ev.reason = "inventory_depleted"
               /\ timers' \subseteq timers
               /\ ~_isSimulationRunning'
               /\ marketEngine' = 0]_vars

\* a simulation ended because its inventory was sold out
C13_Witness ==
  /\ lastOp.op = "round"
  /\ lastOp.result = "inventory_depleted"
  /\ \E ev \in ended : ev.reason = "inventory_depleted"
  /\ ~isSimulationRunning

\* C14: a simulation that ends with inventory left ends with reason
\* round_limit_reached, and no tick has a number beyond the limit
C14_RoundLimitReason ==
  /\ \A ev \in ended : ev.reason \in {"inventory_depleted", "round_limit_reached"}
  /\ \A c \in tickCalls : c.tick <= maxTicks

\* C15: an auto-stop leaves the lifecycle stopped with the lock clear, so a
\* start() that arrives now is accepted, and its event is a simulation_ended
\* event, not a tick event
C15_AutoStopLikeStop ==
  (lastOp.op = "round" /\ lastOp.result \in {"inventory_depleted", "max_ticks_reached"}) =>
    /\ Stopped
    /\ ~isStarting
    /\ ~CannotStart
    /\ \E ev \in ended :
         /\ ev.by = lastOp.arg
         /\ ev.reason = lastOp.result
         /\ ev.type # "tick"

\* a start() was accepted right after an auto-stop
C15_Witness ==
  \E i \in 1..(Len(startLog) - 1) :
    startLog[i] = "ended" /\ startLog[i + 1] = "accepted"

(***************************************************************************)
(* Properties of the engine and of the pricing function                    *)
(***************************************************************************)
\* C7: after each executeTick the market inventory, every agent's money and
\* every agent's holdings are not negative
C7_NothingNegative ==
  (call.pc = "idle" /\ market.tick > 0) =>
    /\ market.seller_inventory >= 0
    /\ \A a \in Participants : market.money[a] >= 0 /\ market.inventory[a] >= 0

\* a tick ended in which a purchase took the seller's last units and the
\* buyer's last money
C7_Witness ==
  /\ call.pc = "idle"
  /\ market.seller_inventory = 0
  /\ \E i \in 1..Len(lastTick.executed_transactions) :
       /\ lastTick.executed_transactions[i].action = "buy"
       /\ market.money[lastTick.executed_transactions[i].agent_id] = 0

\* C16: every executeTick increases the tick counter by exactly 1, and the
\* tick results of a run are numbered 1, 2, 3, ... with none skipped or
\* repeated, whatever the settlements of the rounds return
C16_TicksSequential ==
  /\ [](\A i \in 1..Len(market.tickHistory) : market.tickHistory[i] = i)
  /\ [](call.pc = "idle" => /\ Len(market.tickHistory) = market.tick
                            /\ lastTick.tick = market.tick)
  /\ [][market'.tick = IF call.pc = "idle" THEN market.tick + 1 ELSE market.tick]_vars
  /\ [][lastTick' # lastTick => lastTick'.tick = lastTick.tick + 1]_vars

\* two ticks are done, and in the second the settlement of the only trade
\* failed or threw
C16_Witness ==
  /\ call.pc = "idle"
  /\ market.tickHistory = <<1, 2>>
  /\ Len(lastTick.decisions) = 1
  /\ lastTick.decisions[1].action \in {"buy", "sell"}
  /\ lastTick.decisions[1].id \in market.agentInstances
  /\ lastTick.executed_transactions = <<>>

\* the settlement calls of the tick at hand (or of the last one) that have
\* returned, and its transactions
tickSettlements == IF call.pc = "idle" THEN lastTick.settlements ELSE call.settlements
tickTransactions ==
  IF call.pc = "idle" THEN lastTick.executed_transactions ELSE call.transactions
succeeded == SelectSeq(tickSettlements, LAMBDA x : x.outcome = "success")

\* C21: in one tick the settlement is invoked at most once for an agent,
\* and the transactions of the tick are, one for one and in order, its
\* settlement calls that succeeded
C21_OneSettlementPerAgent ==
  /\ \A i, j \in 1..Len(tickSettlements) :
       i # j => tickSettlements[i].id # tickSettlements[j].id
  /\ call.pc = "await" =>
       \A i \in 1..Len(tickSettlements) : tickSettlements[i].id # call.valid[call.k].id
  /\ Len(tickTransactions) = Len(succeeded)
  /\ \A i \in 1..Len(succeeded) : tickTransactions[i].agent_id = succeeded[i].id

\* a tick with two settlement calls, one that succeeded and one that did
\* not, and one transaction
C21_Witness ==
  /\ call.pc = "idle"
  /\ Len(lastTick.settlements) = 2
  /\ Len(succeeded) = 1
  /\ Len(lastTick.executed_transactions) = 1

\* the quantity of entry d as a raw quantity
authorized(m, d) == sanitizeOne(m, [d EXCEPT !.quantity = @ * Tenths]) = d

\* C28: the batch a tick works on is sanitized for the market the tick
\* starts from, it stays the same through the tick, and a step of the tick
\* changes no holding or balance, or those of the agent whose settlement
\* returned by exactly the quantity of its sanitized entry
C28_OnlySanitizedApplied ==
  [][ /\ call.pc = "idle" =>
          LET batch == IF call'.pc = "await" THEN call'.valid ELSE lastTick'.decisions
          IN  /\ \A i \in 1..Len(batch) : authorized(market, batch[i])
              /\ market'.inventory = market.inventory
              /\ market'.money = market.money
              /\ market'.seller_inventory = market.seller_inventory
      /\ call.pc = "await" =>
          LET d == call.valid[call.k]
              bought == IF d.action = "buy" THEN d.quantity ELSE 0 - d.quantity
          IN  /\ (IF call'.pc = "await" THEN call'.valid ELSE lastTick'.decisions)
                   = call.valid
              /\ \A a \in Participants \ {d.id} :
                   market'.inventory[a] = market.inventory[a]
              /\ market'.inventory[d.id] - market.inventory[d.id] \in {0, bought}
              /\ market.seller_inventory - market'.seller_inventory =
                   market'.inventory[d.id] - market.inventory[d.id]]_vars

\* a tick is done in which a request of 9 was capped and the capped
\* quantity was bought
C28_Witness ==
  /\ call.pc = "idle"
  /\ \E i \in 1..Len(lastTick.executed_transactions) :
       /\ lastTick.executed_transactions[i].action = "buy"
       /\ lastTick.executed_transactions[i].quantity = 3
       /\ market.inventory[lastTick.executed_transactions[i].agent_id] >=
            lastTick.executed_transactions[i].quantity

\* how many entries of the sequence ids are id
entriesOf(ids, id) == Cardinality({i \in 1..Len(ids) : ids[i] = id})

\* C30: after a tick every agent with an entry in the sanitized batch has
\* had one price and one action record pushed to its history
C30_HistoryAdvancesTogether ==
  (call.pc = "idle" /\ market.tick > 0) =>
    \A i \in 1..Len(lastTick.decisions) :
      /\ entriesOf(lastTick.prices_seen, lastTick.decisions[i].id) = 1
      /\ entriesOf(lastTick.actions, lastTick.decisions[i].id) = 1

\* C25: what the accessors returned is a snapshot: the caller reads in it, at
\* any later time, what it showed when it was returned
C25_AccessorsReturnSnapshots ==
  held.taken =>
    /\ marketHeld = held.market
    /\ agentsHeld = held.agents
    /\ historyHeld = held.history

\* C20: when the awaited settlement reports failure or throws, every
\* balance and holding, the seller's inventory and the revenue stay as they
\* were and no transaction is recorded; executeTick moves on to a later
\* entry of the batch or completes the round with its result
C20_FailedSettlementChangesNothing ==
  [][\A outcome \in {"failure", "throw"} : \A noise \in EngineNoise :
       SettlementReturns(outcome, noise) =>
         /\ market'.money = market.money
         /\ market'.inventory = market.inventory
         /\ market'.seller_inventory = market.seller_inventory
         /\ market'.seller_revenue = market.seller_revenue
         /\ IF call'.pc = "await"
            THEN /\ call'.k > call.k
                 /\ call'.valid = call.valid
                 /\ call'.transactions = call.transactions
                 /\ call'.totalDemand = call.totalDemand
                 /\ call'.totalSupply = call.totalSupply
            ELSE /\ call'.pc = "idle"
                 /\ lastTick'.tick = market.tick
                 /\ lastTick'.decisions = call.valid
                 /\ lastTick'.executed_transactions = call.transactions]_vars

\* a round is complete in which the settlement of the first of two trades
\* failed or threw and the second trade was executed
C20_Witness ==
  /\ call.pc = "idle"
  /\ Len(lastTick.decisions) = 2
  /\ \A i \in 1..2 : /\ lastTick.decisions[i].action \in {"buy", "sell"}
                      /\ lastTick.decisions[i].id \in market.agentInstances
  /\ Len(lastTick.executed_transactions) = 1
  /\ lastTick.executed_transactions[1].agent_id = lastTick.decisions[2].id

(***************************************************************************)
(* Properties of sanitizeDecisions (checked under SanitizeSpec)            *)
(***************************************************************************)
\* the raw entries of known agents: entry i of these gives entry i of the
\* sanitized batch
knownRaw == SelectSeq(sanitized.raw, LAMBDA d : d.id \in Participants)

\* C17: sanitizing a sanitized batch gives the same batch
C17_SanitizeIdempotent == sanitized.twice = sanitized.once

\* a batch of two with an unknown id and a trade whose quantity was capped
C17_Witness ==
  /\ Len(sanitized.raw) = 2
  /\ \E i \in 1..2 : sanitized.raw[i].id = UnknownId
  /\ Len(sanitized.once) = 1
  /\ sanitized.once[1].action \in {"buy", "sell"}
  /\ sanitized.once[1].quantity * Tenths < knownRaw[1].quantity
  /\ sanitized.twice = sanitized.once

\* C29: the entries of unknown ids are not in the sanitized batch, and the
\* batch and the tick (market, agent states, histories, transactions) are
\* those of the raw batch without these entries
C29_UnknownIdDropped ==
  /\ \A i \in 1..Len(sanitized.once) : sanitized.once[i].id \in Participants
  /\ Len(sanitized.once) = Len(knownRaw)
  /\ sanitized.once = sanitizeDecisions(market, knownRaw)
  /\ sanitized.raw # <<>> => sanitized.after = executedTick(market, knownRaw)

\* a batch of an unknown id that asks to buy and a known agent that buys
C29_Witness ==
  /\ Len(sanitized.raw) = 2
  /\ sanitized.raw[1].id = UnknownId
  /\ sanitized.raw[1].action = "buy"
  /\ sanitized.raw[1].quantity > 0
  /\ Len(sanitized.once) = 1
  /\ Len(sanitized.transactions) = 1
  /\ sanitized.after.m.seller_inventory < market.seller_inventory

\* floor(balance x maxSpendFraction / currentPrice), and the inventory
buyLimit(id) ==
  LET fraction == IF market.max_spend_percent[id] = 0 THEN 40
                  ELSE market.max_spend_percent[id]
  IN  Min((market.money[id] * fraction) \div (100 * market.current_price),
          market.seller_inventory)

\* holdings, and ceil(holdings x 0.08)
sellLimit(id) ==
  LET holdings == market.inventory[id]
      whole == (holdings * 8) \div 100
  IN  Min(holdings, IF whole * 100 = holdings * 8 THEN whole ELSE whole + 1)

\* floor(requested) of a raw quantity in tenths
floorOf(quantity) == quantity \div Tenths

\* C18 as stated: a buy entry is sanitized to min(floor(requested), balance
\* limit, inventory) and is a wait when that is 0
C18_BuyIsMinOfFloor ==
  \A i \in 1..Len(knownRaw) :
    knownRaw[i].action = "buy" =>
      LET q == Min(floorOf(knownRaw[i].quantity), buyLimit(knownRaw[i].id))
      IN  /\ sanitized.once[i].quantity = q
          /\ sanitized.once[i].action = IF q = 0 THEN "wait" ELSE "buy"

\* C18: a buy entry is sanitized to min(max(0, floor(requested)), balance
\* limit, inventory) and is a wait when that is 0; a buy transaction has the
\* quantity of the agent's sanitized buy entry
C18_BuyIsMinOfNonNegatedFloor ==
  /\ \A i \in 1..Len(knownRaw) :
       knownRaw[i].action = "buy" =>
         LET q == Min(Max(0, floorOf(knownRaw[i].quantity)), buyLimit(knownRaw[i].id))
         IN  /\ sanitized.once[i].quantity = q
             /\ sanitized.once[i].action = IF q = 0 THEN "wait" ELSE "buy"
  /\ \A j \in 1..Len(sanitized.transactions) :
       sanitized.transactions[j].action = "buy" =>
         \E i \in 1..Len(sanitized.once) :
           /\ sanitized.once[i].id = sanitized.transactions[j].agent_id
           /\ sanitized.once[i].action = "buy"
           /\ sanitized.once[i].quantity = sanitized.transactions[j].quantity

\* balance 10, fraction 0.3, price 0.02, inventory 1000: a request of 1000
\* is sanitized to 150 and 150 are bought
C18_Witness ==
  /\ market.money["buyer_1"] = fallbackBalance
  /\ market.max_spend_percent["buyer_1"] = 30
  /\ market.current_price = initialPrice
  /\ market.seller_inventory = 1000
  /\ sanitized.raw = <<[id |-> "buyer_1", action |-> "buy", quantity |-> 1000 * Tenths]>>
  /\ sanitized.once = <<[id |-> "buyer_1", action |-> "buy", quantity |-> 150]>>
  /\ Len(sanitized.transactions) = 1
  /\ sanitized.transactions[1].quantity = 150

\* C19 as stated: a sell entry is sanitized to min(floor(requested),
\* holdings, ceil(holdings x 0.08)) and is a wait when that is 0
C19_SellIsMinOfFloor ==
  \A i \in 1..Len(knownRaw) :
    knownRaw[i].action = "sell" =>
      LET q == Min(floorOf(knownRaw[i].quantity), sellLimit(knownRaw[i].id))
      IN  /\ sanitized.once[i].quantity = q
          /\ sanitized.once[i].action = IF q = 0 THEN "wait" ELSE "sell"

\* C19: a sell entry is sanitized to min(max(0, floor(requested)), holdings,
\* ceil(holdings x 0.08)) and is a wait when that is 0; no sell transaction
\* is for more than the agent held
C19_SellIsMinOfNonNegatedFloor ==
  /\ \A i \in 1..Len(knownRaw) :
       knownRaw[i].action = "sell" =>
         LET q == Min(Max(0, floorOf(knownRaw[i].quantity)), sellLimit(knownRaw[i].id))
         IN  /\ sanitized.once[i].quantity = q
             /\ sanitized.once[i].action = IF q = 0 THEN "wait" ELSE "sell"
  /\ \A j \in 1..Len(sanitized.transactions) :
       sanitized.transactions[j].action = "sell" =>
         sanitized.transactions[j].quantity <= market.inventory[sanitized.transactions[j].agent_id]

\* an agent holding 13 asked to sell 9.5: the entry is a sell of 2, and 2
\* are sold
C19_Witness ==
  /\ market.inventory["buyer_1"] = 13
  /\ sanitized.raw = <<[id |-> "buyer_1", action |-> "sell", quantity |-> 95]>>
  /\ sanitized.once = <<[id |-> "buyer_1", action |-> "sell", quantity |-> 2]>>
  /\ Len(sanitized.transactions) = 1
  /\ sanitized.transactions[1].quantity = 2

\* C8: the price that calculatePriceChange returns lies in minPrice..maxPrice
C8_PriceWithinBounds == pricing.result \in minPrice..maxPrice

\* a negative net flow made the unclamped price zero or negative and the
\* call returned minPrice
C8_Witness ==
  /\ pricing.demand < 0
  /\ pricing.newPrice <= 0
  /\ pricing.result = minPrice

\* the sanitized entries of the tick at hand (or of the last one) in the
\* order the loop of executeTick takes them
tickDecisions == IF call.pc = "idle" THEN lastTick.decisions ELSE call.valid

\* the place of agent id in the registration order
rank(id) == CHOOSE i \in 1..Len(registrationOrder) : registrationOrder[i] = id

\* C33: the decisions of a tick are applied in registration order, whatever
\* the order of the entries in the batch
C33_AppliedInRegistrationOrder ==
  /\ \A i, j \in 1..Len(tickDecisions) :
       i < j => rank(tickDecisions[i].id) < rank(tickDecisions[j].id)
  /\ \A i, j \in 1..Len(tickTransactions) :
       i < j => rank(tickTransactions[i].agent_id) < rank(tickTransactions[j].agent_id)

\* the elements of a sequence
idsOf(records) == {records[i] : i \in 1..Len(records)}

\* C34: an entry whose action is neither buy nor sell is sanitized to wait
\* with quantity 0, and a wait leaves the agent's money, units and long-term
\* statistics as they were and makes no transaction; when every entry of the
\* batch is a wait the seller's inventory and revenue stay as well; the
\* agent's history buffers get their entries
C34_WaitChangesNothing ==
  /\ \A i \in 1..Len(knownRaw) :
       knownRaw[i].action \notin {"buy", "sell"} =>
         /\ sanitized.once[i].action = "wait"
         /\ sanitized.once[i].quantity = 0
  /\ \A i \in 1..Len(sanitized.once) :
       sanitized.once[i].action = "wait" =>
         LET id == sanitized.once[i].id
         IN  /\ sanitized.once[i].quantity = 0
             /\ sanitized.after.m.money[id] = market.money[id]
             /\ sanitized.after.m.inventory[id] = market.inventory[id]
             /\ sanitized.after.m.long_term[id] = market.long_term[id]
             /\ \A j \in 1..Len(sanitized.after.transactions) :
                  sanitized.after.transactions[j].agent_id # id
             /\ id \in idsOf(sanitized.after.actions)
             /\ id \in idsOf(sanitized.after.prices_seen)
             /\ sanitized.after.m.last_tick_seen[id] = market.tick + 1
  /\ (sanitized.once # <<>> /\ \A i \in 1..Len(sanitized.once) :
                                sanitized.once[i].action = "wait") =>
       /\ sanitized.after.transactions = <<>>
       /\ sanitized.after.m.seller_inventory = market.seller_inventory
       /\ sanitized.after.m.seller_revenue = market.seller_revenue

\* an agent with money asked for an unknown action with a quantity, next to
\* an agent whose purchase was executed
C34_Witness ==
  /\ Len(knownRaw) = 2
  /\ knownRaw[1].action = "hold"
  /\ knownRaw[1].quantity > 0
  /\ market.money[knownRaw[1].id] > 0
  /\ sanitized.once[1].action = "wait"
  /\ Len(sanitized.after.transactions) = 1

\* the sum of f over the agents in S
RECURSIVE sumOver(_, _)
sumOver(S, f) ==
  IF S = {} THEN 0
  ELSE LET a == CHOOSE x \in S : TRUE IN f[a] + sumOver(S \ {a}, f)

\* the units in the market: the seller's and the agents'
goods(m) == m.seller_inventory + sumOver(Participants, m.inventory)

\* the money in the market: the agents' and the seller's revenue
funds(m) == m.seller_revenue + sumOver(Participants, m.money)

\* the transactions of the tick at hand after the step
tickTransactionsAfter ==
  IF call'.pc = "idle" THEN lastTick'.executed_transactions ELSE call'.transactions

\* a settlement returned in this step and its transaction was recorded
tradeExecuted ==
  /\ call.pc = "await"
  /\ Len(tickTransactionsAfter) = Len(call.transactions) + 1

\* the transaction recorded in this step
executedTrade == tickTransactionsAfter[Len(tickTransactionsAfter)]

\* C36: no step changes the number of units in the market, so it stays what
\* the engine was built with; an executed buy moves its quantity from the
\* seller to the agent and an executed sell moves it back
C36_GoodsConserved ==
  [][/\ goods(market') = goods(market)
     /\ tradeExecuted =>
          LET t == executedTrade
              q == IF t.action = "buy" THEN t.quantity ELSE 0 - t.quantity
          IN  /\ market'.seller_inventory = market.seller_inventory - q
              /\ market'.inventory[t.agent_id] = market.inventory[t.agent_id] + q
              /\ \A a \in Participants \ {t.agent_id} :
                   market'.inventory[a] = market.inventory[a]]_vars

\* after two ticks the seller holds more than it started with: a sale to
\* the seller was executed
C36_Witness ==
  /\ call.pc = "idle"
  /\ market.tick = 2
  /\ \E a \in EngineInventories : market.seller_inventory > a
  /\ \E a \in Participants : market.long_term[a].total_qty_bought > 0

\* C37: no step changes the sum of the agents' money and the seller's
\* revenue, so it stays the sum of the initial balances; the revenue grows by
\* the value of an executed buy and shrinks by the value of an executed sell
C37_MoneyConserved ==
  [][/\ funds(market') = funds(market)
     /\ tradeExecuted =>
          LET t == executedTrade
              v == IF t.action = "buy" THEN t.quantity * t.price
                   ELSE 0 - t.quantity * t.price
          IN  /\ market'.seller_revenue = market.seller_revenue + v
              /\ market'.money[t.agent_id] = market.money[t.agent_id] - v
              /\ \A a \in Participants \ {t.agent_id} :
                   market'.money[a] = market.money[a]
     /\ ~tradeExecuted => market'.seller_revenue = market.seller_revenue]_vars

\* a buy and a sell were executed and the revenue is what the buys brought
\* less what the sells cost
C37_Witness ==
  /\ call.pc = "idle"
  /\ \E a, b \in Participants :
       /\ market.long_term[a].total_spent > 0
       /\ market.long_term[b].total_revenue > 0
  /\ market.seller_revenue =
       sumOver(Participants, [a \in Participants |-> market.long_term[a].total_spent])
       - sumOver(Participants, [a \in Participants |-> market.long_term[a].total_revenue])

\* the entries of tickDecisions the loop is done with
processed == IF call.pc = "idle" THEN Len(tickDecisions) ELSE call.k - 1

\* the price at which the tick at hand trades
tickPrice == IF call.pc = "idle" THEN lastTick.price_before ELSE call.priceBefore

\* the place of agent id in tickDecisions
entryOf(id) == CHOOSE j \in 1..Len(tickDecisions) : tickDecisions[j].id = id

\* entry i of the tick has a transaction, has a settlement call that returned
executedEntry(i) ==
  \E n \in 1..Len(tickTransactions) : tickTransactions[n].agent_id = tickDecisions[i].id
settledEntry(i) ==
  \E n \in 1..Len(tickSettlements) : tickSettlements[n].id = tickDecisions[i].id

\* the seller's inventory when the loop came to entry i: what it is now,
\* with the transactions of entry i and of the later entries taken back
stockAt(i) ==
  market.seller_inventory
  + netFlow(SelectSeq(tickTransactions, LAMBDA t : entryOf(t.agent_id) >= i))

\* the money and the units of the agent of entry i when the loop came to it
moneyAt(i) ==
  LET d == tickDecisions[i]
  IN  market.money[d.id]
      + (IF ~executedEntry(i) THEN 0
         ELSE IF d.action = "buy" THEN d.quantity * tickPrice
         ELSE 0 - d.quantity * tickPrice)
holdingsAt(i) ==
  LET d == tickDecisions[i]
  IN  market.inventory[d.id]
      - (IF ~executedEntry(i) THEN 0
         ELSE IF d.action = "buy" THEN d.quantity ELSE 0 - d.quantity)

\* the guard of entry i failed when the loop came to it
shortAt(i) ==
  LET d == tickDecisions[i]
  IN  IF d.action = "buy"
      THEN stockAt(i) < d.quantity \/ moneyAt(i) < d.quantity * tickPrice
      ELSE holdingsAt(i) < d.quantity

\* C39: a buy that is larger than the inventory left at its turn, or costs
\* more than the agent has, and a sell larger than the agent's holdings, is
\* skipped whole: no settlement call, no transaction, nothing moved; and a
\* settlement is called only for a trade that can be filled in full
C39_TradesAllOrNothing ==
  /\ \A i \in 1..processed :
       tickDecisions[i].action \in {"buy", "sell"} =>
         /\ shortAt(i) => ~settledEntry(i) /\ ~executedEntry(i)
         /\ settledEntry(i) => ~shortAt(i)
         /\ executedEntry(i) =>
              \E n \in 1..Len(tickTransactions) :
                /\ tickTransactions[n].agent_id = tickDecisions[i].id
                /\ tickTransactions[n].quantity = tickDecisions[i].quantity
  /\ call.pc = "await" => canTrade(market, call.valid[call.k])

\* the first agent bought all the seller had and the buy of the second,
\* which sanitizeDecisions had let through, was skipped
C39_Witness ==
  /\ call.pc = "idle"
  /\ Len(tickDecisions) = 2
  /\ tickDecisions[2].action = "buy"
  /\ tickDecisions[2].id \in market.agentInstances
  /\ executedEntry(1)
  /\ shortAt(2)
  /\ stockAt(2) < tickDecisions[2].quantity
  /\ ~settledEntry(2)
  /\ Len(tickTransactions) = 1

====
